---- MODULE Spec2Model ----
(***************************************************************************)
(* Model of the opentale_inventory container/stack mutation engine: item   *)
(* stacks, slot containers, the container manager, the held item, the drag *)
(* state and the per-frame input systems registered in src/main.rs.        *)
(***************************************************************************)
EXTENDS Integers, Sequences, FiniteSets, TLC

VARIABLES
    containers,        \* ContainerManager.containers : key -> SlotContainer
    ui_mode,           \* ContainerManager.ui_mode
    layouts,           \* ContainerManager.layouts (container keys, in order)
    available_chests,  \* ContainerManager.available_chests
    active_chest_id,   \* ContainerManager.active_chest_id
    held_item,         \* HeldItem.stack : Option<ItemStack>
    drag_state,        \* DragState resource
    ui_slots,          \* container keys that have InventorySlot entities
    rebuild_needed,    \* a UIRebuildNeeded entity exists
    container_events,  \* unread Open/Close/Switch events
    mouse_queue,       \* per system: MouseButtonInput events not yet read
    input,             \* the inputs of the current frame
    pending,           \* systems that have not run yet in this frame
    frame,             \* number of frames started
    panicked,          \* the process has panicked
    build,             \* "any" until an overflow decides the build profile
    last,              \* the operation applied last, with its inputs
    pickup_origin,     \* history: the slot the held stack was last lifted from
    right_gesture,     \* history: the frames of the current right-drag gesture
    visual_pending,    \* systems outside the ordered set that have not run yet in this frame
    container_state,   \* the ContainerState of the reference crate, if one was built
    app_exit           \* an AppExit event was sent

vars == << containers, ui_mode, layouts, available_chests, active_chest_id,
           held_item, drag_state, ui_slots, rebuild_needed, container_events,
           mouse_queue, input, pending, frame, panicked, build, last,
           pickup_origin, right_gesture, visual_pending,
           container_state, app_exit >>

----------------------------------------------------------------------------
(* Option<T> *)

None == << >>
Some(x) == << x >>
IsSome(o) == o # None
Unwrap(o) == o[1]

Min(a, b) == IF a <= b THEN a ELSE b

(* min(x, a.wrapping_sub(b)) on u32 values below 2^31, in a build without  *)
(* overflow checks: when a < b the difference wraps to 2^32 - (b - a),     *)
(* which is above x                                                        *)
MinWrappingSub(x, a, b) == IF a >= b THEN Min(x, a - b) ELSE x

(* u32::saturating_sub *)
SaturatingSub(a, b) == IF a >= b THEN a - b ELSE 0

----------------------------------------------------------------------------
(* Item catalog: src/src/world/item/item.rs, items.rs *)

ItemProperties_new == [max_stack_size |-> 64]

Item_new(identifier, properties) ==
    [identifier |-> identifier, properties |-> properties]

BOW == Item_new("bow", [ItemProperties_new EXCEPT !.max_stack_size = 1])
IRON_SWORD == Item_new("iron_sword", [ItemProperties_new EXCEPT !.max_stack_size = 1])
APPLE == Item_new("apple", ItemProperties_new)
GLASS_BOTTLE == Item_new("glass_bottle", [ItemProperties_new EXCEPT !.max_stack_size = 16])
CHEESE == Item_new("cheese", ItemProperties_new)
RING == Item_new("ring", ItemProperties_new)

----------------------------------------------------------------------------
(* ItemStack: src/src/world/inventory/item_stack.rs *)

ItemStack_new(item, size) == [item |-> Some(item), size |-> size]

MaxOf(stack) == Unwrap(stack.item).properties.max_stack_size

can_merge_with(self, other) ==
    /\ self.item = other.item
    /\ Unwrap(self.item).identifier = Unwrap(other.item).identifier
    /\ MaxOf(self) = MaxOf(other)

(* try_merge that moves the whole stack without looking at the space left *)
try_merge_uncapped(self, other_stack, checks) ==
    IF ~can_merge_with(self, other_stack)
    THEN [self |-> self, other |-> other_stack, ret |-> FALSE,
          overflow |-> FALSE, panicked |-> FALSE]
    ELSE [self |-> [self EXCEPT !.size = 0],
          other |-> [other_stack EXCEPT !.size = self.size + other_stack.size],
          ret |-> TRUE, overflow |-> FALSE, panicked |-> FALSE]

(* try_merge(&mut self, other_stack): the result is the pair of stacks     *)
(* afterwards, the returned flag, and whether the u32 subtraction          *)
(* max_stack_size - other_stack.size overflowed and the build checks it.   *)
try_merge(self, other_stack, checks) ==
    IF ~can_merge_with(self, other_stack)
    THEN [self |-> self, other |-> other_stack, ret |-> FALSE,
          overflow |-> FALSE, panicked |-> FALSE]
    ELSE LET combined_stack_size == self.size + other_stack.size IN
         IF combined_stack_size <= MaxOf(other_stack)
         THEN [self |-> [self EXCEPT !.size = 0],
               other |-> [other_stack EXCEPT !.size = combined_stack_size],
               ret |-> TRUE, overflow |-> FALSE, panicked |-> FALSE]
         ELSE LET overflow == MaxOf(other_stack) < other_stack.size
                  transferred_amount ==
                      MinWrappingSub(self.size, MaxOf(other_stack), other_stack.size)
              IN  IF overflow /\ checks
                  THEN [self |-> self, other |-> other_stack, ret |-> FALSE,
                        overflow |-> TRUE, panicked |-> TRUE]
                  ELSE [self |-> [self EXCEPT !.size = self.size - transferred_amount],
                        other |-> [other_stack EXCEPT !.size = other_stack.size + transferred_amount],
                        ret |-> FALSE, overflow |-> overflow, panicked |-> FALSE]

(* split_half that also splits a stack of one unit *)
split_half_splits_one(self) ==
    IF self.size < 1
    THEN [self |-> self, ret |-> None]
    ELSE LET half == self.size \div 2 IN
         [self |-> [self EXCEPT !.size = self.size - half],
          ret |-> Some([item |-> self.item, size |-> half])]

(* split_half that hands out the larger half *)
split_half_rounds_up(self) ==
    IF self.size <= 1
    THEN [self |-> self, ret |-> None]
    ELSE LET half == self.size - self.size \div 2 IN
         [self |-> [self EXCEPT !.size = self.size - half],
          ret |-> Some([item |-> self.item, size |-> half])]

(* split_half(&mut self): the stack afterwards and the returned Option *)
split_half(self) ==
    IF self.size <= 1
    THEN [self |-> self, ret |-> None]
    ELSE LET half == self.size \div 2 IN
         [self |-> [self EXCEPT !.size = self.size - half],
          ret |-> Some([item |-> self.item, size |-> half])]

----------------------------------------------------------------------------
(* SlotContainer: src/src/world/inventory/inventory.rs.  The vector of    *)
(* slots is kept as its length and the map from the occupied indices to    *)
(* their stacks; an index in range and outside the map is an empty slot.   *)

SlotContainer_new(slot_count) == [slot_count |-> slot_count, slots |-> << >>]

InRange(c, index) == index >= 0 /\ index < c.slot_count

get_slot(c, index) == IF index \in DOMAIN c.slots THEN Some(c.slots[index]) ELSE None

(* the vector with slots[index] = stack *)
Store(c, index, stack) ==
    [c EXCEPT !.slots =
        IF stack = None
        THEN [i \in (DOMAIN c.slots) \ {index} |-> c.slots[i]]
        ELSE [i \in (DOMAIN c.slots) \cup {index} |->
                 IF i = index THEN Unwrap(stack) ELSE c.slots[i]]]

get_slot_mut(c, index) == IF index \in DOMAIN c.slots THEN Some(c.slots[index]) ELSE None

(* set_slot panics on an index out of range *)
set_slot_panics(c, index) == ~InRange(c, index)

set_slot(c, index, stack) == IF InRange(c, index) THEN Store(c, index, stack) ELSE c

(* take_slot: the container afterwards; the returned value is get_slot *)
take_slot(c, index) == IF InRange(c, index) THEN Store(c, index, None) ELSE c

----------------------------------------------------------------------------
(* Click operations: src/src/utils/item_operations.rs.  Each operator      *)
(* returns the container and the held item afterwards, and whether the     *)
(* call panicked (overflow is set when a u32 subtraction wrapped).         *)

Outcome(inventory, held, panic, overflow) ==
    [inventory |-> inventory, held |-> held, panicked |-> panic, overflow |-> overflow]

(* Option<Item>::unwrap() on the item of a stack *)
unwrap_panics(stack) == stack.item = None

(* the slot receives the held stack and forgets the clicked one *)
swap_with_slot_keeps_held(taken, slot_index, held_stack, clicked_stack) ==
    Outcome(set_slot(taken, slot_index, Some(held_stack)), Some(held_stack),
            set_slot_panics(taken, slot_index), FALSE)

(* the swap of process_left_click (item_operations.rs:21-24): the slot     *)
(* receives the held stack, the cursor the clicked one                     *)
swap_with_slot(taken, slot_index, held_stack, clicked_stack) ==
    Outcome(set_slot(taken, slot_index, Some(held_stack)), Some(clicked_stack),
            set_slot_panics(taken, slot_index), FALSE)

(* the slot receives the held stack and the cursor keeps it *)
place_in_empty_slot_keeps_held(taken, slot_index, held) ==
    Outcome(set_slot(taken, slot_index, held), held,
            set_slot_panics(taken, slot_index), FALSE)

(* the placement of process_left_click (item_operations.rs:25-28): the     *)
(* empty slot receives the held stack and the cursor is emptied            *)
place_in_empty_slot(taken, slot_index, held) ==
    Outcome(set_slot(taken, slot_index, held), None,
            set_slot_panics(taken, slot_index), FALSE)

process_left_click(slot_index, inventory, held, checks) ==
    LET slot_stack == get_slot(inventory, slot_index)
        taken == take_slot(inventory, slot_index)
    IN  CASE held = None /\ IsSome(slot_stack) ->
                Outcome(taken, slot_stack, FALSE, FALSE)
          [] IsSome(held) /\ IsSome(slot_stack) ->
                LET held_stack == Unwrap(held)
                    clicked_stack == Unwrap(slot_stack)
                IN  IF unwrap_panics(held_stack) \/ unwrap_panics(clicked_stack)
                    THEN Outcome(taken, held, TRUE, FALSE)
                    ELSE IF can_merge_with(held_stack, clicked_stack)
                    THEN LET m == try_merge(held_stack, clicked_stack, checks) IN
                         IF m.panicked
                         THEN Outcome(taken, held, TRUE, TRUE)
                         ELSE Outcome(set_slot(taken, slot_index, Some(m.other)),
                                      IF m.ret THEN None ELSE Some(m.self),
                                      set_slot_panics(taken, slot_index), m.overflow)
                    ELSE swap_with_slot(taken, slot_index, held_stack, clicked_stack)
          [] IsSome(held) /\ slot_stack = None ->
                place_in_empty_slot(taken, slot_index, held)
          [] OTHER -> Outcome(taken, held, FALSE, FALSE)

(* the held stack goes into the empty slot whole, whatever its count *)
right_click_empty_slot_places_all(slot_index, inventory, held_stack) ==
    Outcome(set_slot(inventory, slot_index, Some(held_stack)), None,
            set_slot_panics(inventory, slot_index), FALSE)

(* process_right_click, held stack on an empty slot                        *)
(* (item_operations.rs:54-65): one unit goes into the slot, or the whole   *)
(* stack when its count is not above 1                                     *)
right_click_empty_slot(slot_index, inventory, held_stack) ==
    IF held_stack.size > 1
    THEN IF unwrap_panics(held_stack)
         THEN Outcome(inventory, Some(held_stack), TRUE, FALSE)
         ELSE Outcome(set_slot(inventory, slot_index,
                               Some(ItemStack_new(Unwrap(held_stack.item), 1))),
                      Some([held_stack EXCEPT !.size = held_stack.size - 1]),
                      set_slot_panics(inventory, slot_index), FALSE)
    ELSE Outcome(set_slot(inventory, slot_index, Some(held_stack)), None,
                 set_slot_panics(inventory, slot_index), FALSE)

process_right_click(slot_index, inventory, held, checks) ==
    LET slot == get_slot(inventory, slot_index)
    IN  CASE held = None /\ IsSome(slot) ->
                LET s == split_half(Unwrap(slot)) IN
                IF IsSome(s.ret)
                THEN Outcome(set_slot(inventory, slot_index, Some(s.self)), s.ret, FALSE, FALSE)
                ELSE Outcome(take_slot(inventory, slot_index), slot, FALSE, FALSE)
          [] IsSome(held) /\ IsSome(slot) ->
                LET held_stack == Unwrap(held)
                    slot_stack == Unwrap(slot)
                IN  IF unwrap_panics(held_stack) \/ unwrap_panics(slot_stack)
                    THEN Outcome(inventory, held, TRUE, FALSE)
                    ELSE IF can_merge_with(held_stack, slot_stack) /\ held_stack.size > 0
                            /\ slot_stack.size < MaxOf(slot_stack)
                    THEN Outcome(Store(inventory, slot_index,
                                       Some([slot_stack EXCEPT !.size = slot_stack.size + 1])),
                                 IF held_stack.size - 1 = 0 THEN None
                                 ELSE Some([held_stack EXCEPT !.size = held_stack.size - 1]),
                                 FALSE, FALSE)
                    ELSE Outcome(inventory, held, FALSE, FALSE)
          [] IsSome(held) /\ slot = None ->
                right_click_empty_slot(slot_index, inventory, Unwrap(held))
          [] OTHER -> Outcome(inventory, held, FALSE, FALSE)

deposit_single_item(slot_index, container, held, checks) ==
    IF held = None THEN Outcome(container, held, FALSE, FALSE)
    ELSE LET held_stack == Unwrap(held)
             slot == get_slot(container, slot_index)
             dec == held_stack.size - 1
             held_after == IF dec = 0 THEN None ELSE Some([held_stack EXCEPT !.size = dec])
         IN  IF held_stack.size = 0 THEN Outcome(container, None, FALSE, FALSE)
             ELSE IF slot = None
             THEN IF unwrap_panics(held_stack)
                  THEN Outcome(container, held, TRUE, FALSE)
                  ELSE Outcome(set_slot(container, slot_index,
                                        Some(ItemStack_new(Unwrap(held_stack.item), 1))),
                               held_after, set_slot_panics(container, slot_index), FALSE)
             ELSE LET slot_stack == Unwrap(slot) IN
                  IF unwrap_panics(held_stack) \/ unwrap_panics(slot_stack)
                  THEN Outcome(container, held, TRUE, FALSE)
                  ELSE IF can_merge_with(held_stack, slot_stack)
                          /\ slot_stack.size < MaxOf(slot_stack)
                  THEN Outcome(Store(container, slot_index,
                                     Some([slot_stack EXCEPT !.size = slot_stack.size + 1])),
                               held_after, FALSE, FALSE)
                  ELSE Outcome(container, held, FALSE, FALSE)

(* place_stack_in_slot that reports no leftover when the slot fills up *)
place_stack_in_slot_drops_leftover(container, slot_index, stack) ==
    LET slot == get_slot(container, slot_index) IN
    IF slot = None
    THEN [container |-> set_slot(container, slot_index, Some(stack)), leftover |-> None,
          panicked |-> set_slot_panics(container, slot_index)]
    ELSE LET existing_stack == Unwrap(slot)
             to_add == Min(SaturatingSub(MaxOf(existing_stack), existing_stack.size), stack.size)
         IN  IF can_merge_with(stack, existing_stack)
             THEN [container |-> Store(container, slot_index,
                                       Some([existing_stack EXCEPT !.size = existing_stack.size + to_add])),
                   leftover |-> None, panicked |-> FALSE]
             ELSE [container |-> container, leftover |-> Some(stack), panicked |-> FALSE]

(* place_stack_in_slot: the container afterwards and the leftover *)
place_stack_in_slot(container, slot_index, stack) ==
    LET slot == get_slot(container, slot_index) IN
    IF slot = None
    THEN [container |-> set_slot(container, slot_index, Some(stack)), leftover |-> None,
          panicked |-> set_slot_panics(container, slot_index)]
    ELSE LET existing_stack == Unwrap(slot) IN
         IF unwrap_panics(stack) \/ unwrap_panics(existing_stack)
         THEN [container |-> container, leftover |-> None, panicked |-> TRUE]
         ELSE IF can_merge_with(stack, existing_stack)
         THEN LET max_size == MaxOf(existing_stack)
                  available_space == SaturatingSub(max_size, existing_stack.size)
                  to_add == Min(available_space, stack.size)
              IN  [container |-> Store(container, slot_index,
                                     Some([existing_stack EXCEPT !.size = existing_stack.size + to_add])),
                   leftover |-> IF to_add = stack.size THEN None
                                ELSE Some(ItemStack_new(Unwrap(stack.item), stack.size - to_add)),
                   panicked |-> FALSE]
         ELSE [container |-> container, leftover |-> Some(stack), panicked |-> FALSE]

----------------------------------------------------------------------------
(* ContainerManager: src/src/world/inventory/containers.rs *)

Hotbar == [type |-> "Hotbar", id |-> 0]
PlayerInventory == [type |-> "PlayerInventory", id |-> 0]
Chest(chest_id) == [type |-> "Chest", id |-> chest_id]

HotbarOnly == [mode |-> "HotbarOnly", id |-> 0]
InventoryOpen == [mode |-> "InventoryOpen", id |-> 0]
ChestOpen(chest_id) == [mode |-> "ChestOpen", id |-> chest_id]

(* impl Default for ContainerManager *)
ContainerManager_default ==
    [containers |-> [k \in {PlayerInventory, Hotbar, Chest(1), Chest(2), Chest(3)} |->
                        IF k = Hotbar THEN SlotContainer_new(9) ELSE SlotContainer_new(27)],
     ui_mode |-> HotbarOnly,
     layouts |-> << Hotbar >>,
     available_chests |-> << 1, 2, 3 >>,
     active_chest_id |-> None]

(* a slot reference (ContainerType, usize) is the pair << key, index >> *)
SlotRef(container_type, index) == << container_type, index >>

(* the content of the slot a reference names *)
SlotAt(cs, ref) == IF ref[1] \in DOMAIN cs THEN get_slot(cs[ref[1]], ref[2]) ELSE None

(* filter_valid_distribution_slots *)
IsValidDistributionSlot(ref, held_stack, cs) ==
    /\ ref[1] \in DOMAIN cs
    /\ LET slot == get_slot(cs[ref[1]], ref[2]) IN
       \/ slot = None
       \/ /\ IsSome(slot)
          /\ can_merge_with(held_stack, Unwrap(slot))
          /\ Unwrap(slot).size < MaxOf(Unwrap(slot))

filter_valid_distribution_slots(slots, held_stack, cs) ==
    SelectSeq(slots, LAMBDA ref : IsValidDistributionSlot(ref, held_stack, cs))

----------------------------------------------------------------------------
(* DragState and left-drag resolution: src/src/systems/drag.rs *)

DragState_default ==
    [is_left_dragging |-> FALSE,
     left_drag_slots |-> << >>,
     was_left_dragging_this_frame |-> FALSE,
     is_right_dragging |-> FALSE,
     right_last_hovered_slot |-> None,
     right_drag_slots |-> << >>,
     was_right_dragging_this_frame |-> FALSE,
     pickup_slot |-> None]

Contains(seq, x) == \E i \in 1..Len(seq) : seq[i] = x

(* DragState::add_left_drag_slot: append unless already present *)
add_left_drag_slot(ds, container_type, index) ==
    IF Contains(ds.left_drag_slots, SlotRef(container_type, index))
    THEN ds
    ELSE [ds EXCEPT !.left_drag_slots = Append(@, SlotRef(container_type, index))]

(* the pickup-slot exclusion of distribute_items_evenly *)
exclude_pickup_slot(valid_slots, pickup_slot) ==
    IF IsSome(pickup_slot)
    THEN LET non_pickup_slots == SelectSeq(valid_slots, LAMBDA ref : ref # Unwrap(pickup_slot))
         IN  IF non_pickup_slots # << >> THEN non_pickup_slots ELSE valid_slots
    ELSE valid_slots

(* the allotment with the extra unit given to one target too many *)
items_for_this_slot_one_more(i, items_per_slot, remainder) ==
    IF i <= remainder THEN items_per_slot + 1 ELSE items_per_slot

(* the allotment of the i-th (0-based) target *)
items_for_this_slot(i, items_per_slot, remainder) ==
    IF i < remainder THEN items_per_slot + 1 ELSE items_per_slot

(* the distribution loop over valid_slots[k..]; k is 1-based *)
RECURSIVE distribute_loop(_, _, _, _, _, _)
distribute_loop(cs, valid_slots, k, items_per_slot, remainder, item) ==
    IF k > Len(valid_slots)
    THEN [containers |-> cs, total_distributed |-> 0, panicked |-> FALSE]
    ELSE LET ref == valid_slots[k]
             amount == items_for_this_slot(k - 1, items_per_slot, remainder)
         IN  IF ref[1] \in DOMAIN cs /\ amount > 0
             THEN LET p == place_stack_in_slot(cs[ref[1]], ref[2], ItemStack_new(item, amount))
                      actually_placed == amount - (IF IsSome(p.leftover) THEN Unwrap(p.leftover).size ELSE 0)
                  IN  IF p.panicked
                      THEN [containers |-> cs, total_distributed |-> 0, panicked |-> TRUE]
                      ELSE LET rest == distribute_loop([cs EXCEPT ![ref[1]] = p.container],
                                                       valid_slots, k + 1, items_per_slot, remainder, item)
                           IN  [rest EXCEPT !.total_distributed = @ + actually_placed]
             ELSE distribute_loop(cs, valid_slots, k + 1, items_per_slot, remainder, item)

(* the targets of an even distribution *)
distribution_targets(cs, held_stack, ds) ==
    exclude_pickup_slot(filter_valid_distribution_slots(ds.left_drag_slots, held_stack, cs),
                        ds.pickup_slot)

World(cs, held, ds, panic, overflow) ==
    [containers |-> cs, held |-> held, drag |-> ds, panicked |-> panic, overflow |-> overflow]

distribute_items_evenly(cs, held, ds) ==
    IF held = None THEN World(cs, held, ds, FALSE, FALSE)
    ELSE LET held_stack == Unwrap(held)
             total_items == held_stack.size
             valid_slots == distribution_targets(cs, held_stack, ds)
         IN  IF valid_slots = << >> THEN World(cs, held, ds, FALSE, FALSE)
             ELSE IF unwrap_panics(held_stack) THEN World(cs, held, ds, TRUE, FALSE)
             ELSE LET valid_slot_count == Len(valid_slots)
                      items_per_slot == total_items \div valid_slot_count
                      remainder == total_items % valid_slot_count
                      d == distribute_loop(cs, valid_slots, 1, items_per_slot, remainder,
                                           Unwrap(held_stack.item))
                  IN  IF d.panicked THEN World(cs, held, ds, TRUE, FALSE)
                      ELSE World(d.containers,
                                 IF d.total_distributed >= total_items THEN None
                                 ELSE Some([held_stack EXCEPT !.size = total_items - d.total_distributed]),
                                 ds, FALSE, FALSE)

(* process_drag_end that lets go of the held stack when no slot was visited *)
process_drag_end_drops_held(cs, held, ds, checks) ==
    IF held = None THEN World(cs, held, ds, FALSE, FALSE)
    ELSE IF ds.left_drag_slots = << >> THEN World(cs, None, ds, FALSE, FALSE)
    ELSE IF Len(ds.left_drag_slots) = 1
    THEN LET ref == ds.left_drag_slots[1] IN
         IF ref[1] \in DOMAIN cs
         THEN LET r == process_left_click(ref[2], cs[ref[1]], held, checks) IN
              World([cs EXCEPT ![ref[1]] = r.inventory], r.held, ds, r.panicked, r.overflow)
         ELSE World(cs, held, ds, FALSE, FALSE)
    ELSE distribute_items_evenly(cs, held, ds)

(* process_drag_end that distributes also over a single visited slot *)
process_drag_end_always_distributes(cs, held, ds, checks) ==
    IF held = None THEN World(cs, held, ds, FALSE, FALSE)
    ELSE IF ds.left_drag_slots = << >> THEN World(cs, held, ds, FALSE, FALSE)
    ELSE distribute_items_evenly(cs, held, ds)

(* process_drag_end (drag.rs:101-126) *)
process_drag_end(cs, held, ds, checks) ==
    IF held = None THEN World(cs, held, ds, FALSE, FALSE)
    ELSE IF ds.left_drag_slots = << >> THEN World(cs, held, ds, FALSE, FALSE)
    ELSE IF Len(ds.left_drag_slots) = 1
    THEN LET ref == ds.left_drag_slots[1] IN
         IF ref[1] \in DOMAIN cs
         THEN LET r == process_left_click(ref[2], cs[ref[1]], held, checks) IN
              World([cs EXCEPT ![ref[1]] = r.inventory], r.held, ds, r.panicked, r.overflow)
         ELSE World(cs, held, ds, FALSE, FALSE)
    ELSE distribute_items_evenly(cs, held, ds)

----------------------------------------------------------------------------
(* Drag previews: src/src/systems/ui/slot_utils.rs and drag_visuals.rs.    *)
(* A u32 difference is the record of its value and of whether the          *)
(* subtraction went below zero: wrapped is then TRUE and value the amount  *)
(* below zero, the u32 result being 2^32 - value.                          *)

(* can_slot_accept_items (slot_utils.rs:11-28) *)
can_slot_accept_items(ref, held_stack, cs) ==
    IF ref[1] \in DOMAIN cs
    THEN LET slot == get_slot(cs[ref[1]], ref[2]) IN
         IF slot = None THEN TRUE
         ELSE /\ can_merge_with(held_stack, Unwrap(slot))
              /\ Unwrap(slot).size < MaxOf(Unwrap(slot))
    ELSE FALSE

(* calculate_available_space (slot_utils.rs:31-52) *)
calculate_available_space(ref, held_stack, cs) ==
    IF ref[1] \in DOMAIN cs
    THEN LET slot == get_slot(cs[ref[1]], ref[2]) IN
         IF slot = None THEN [value |-> held_stack.size, wrapped |-> FALSE]
         ELSE IF can_merge_with(held_stack, Unwrap(slot))
         THEN LET max_size == MaxOf(Unwrap(slot))
                  size == Unwrap(slot).size
              IN  IF max_size >= size THEN [value |-> max_size - size, wrapped |-> FALSE]
                  ELSE [value |-> size - max_size, wrapped |-> TRUE]
         ELSE [value |-> 0, wrapped |-> FALSE]
    ELSE [value |-> 0, wrapped |-> FALSE]

(* x.min(available_space) for a count x below 2^31; the subtraction that   *)
(* wrapped panics in a build with overflow checks                          *)
MinSpace(x, available_space, checks) ==
    [value |-> IF available_space.wrapped THEN x ELSE Min(x, available_space.value),
     overflow |-> available_space.wrapped,
     panicked |-> available_space.wrapped /\ checks]

(* filter_out_pickup_slot (slot_utils.rs:62-80) *)
filter_out_pickup_slot(valid_slots, pickup_slot) ==
    IF IsSome(pickup_slot)
    THEN LET non_pickup_slots == SelectSeq(valid_slots, LAMBDA ref : ref # Unwrap(pickup_slot))
         IN  IF non_pickup_slots # << >> THEN non_pickup_slots ELSE valid_slots
    ELSE valid_slots

(* iter().position(): the 0-based index of the first occurrence *)
Position(seq, x) == CHOOSE i \in 0..(Len(seq) - 1) :
                        /\ seq[i + 1] = x
                        /\ \A j \in 0..(i - 1) : seq[j + 1] # x

(* calculate_drag_preview (drag_visuals.rs:83-146) *)
calculate_drag_preview(current_slot, ds, held, cs, checks) ==
    IF held = None THEN [value |-> 0, overflow |-> FALSE, panicked |-> FALSE]
    ELSE LET held_stack == Unwrap(held) IN
         IF ds.left_drag_slots = << >>
         THEN [value |-> 0, overflow |-> FALSE, panicked |-> FALSE]
         ELSE IF Len(ds.left_drag_slots) = 1
         THEN IF Contains(ds.left_drag_slots, current_slot)
              THEN MinSpace(held_stack.size,
                            calculate_available_space(current_slot, held_stack, cs), checks)
              ELSE [value |-> 0, overflow |-> FALSE, panicked |-> FALSE]
         ELSE LET valid_slots ==
                      filter_valid_distribution_slots(ds.left_drag_slots, held_stack, cs)
                  filtered_slots == filter_out_pickup_slot(valid_slots, ds.pickup_slot)
              IN  IF ~Contains(filtered_slots, current_slot)
                  THEN [value |-> 0, overflow |-> FALSE, panicked |-> FALSE]
                  ELSE LET valid_slot_count == Len(filtered_slots)
                           items_per_slot == held_stack.size \div valid_slot_count
                           remainder == held_stack.size % valid_slot_count
                           intended_amount ==
                               IF Position(filtered_slots, current_slot) < remainder
                               THEN items_per_slot + 1
                               ELSE items_per_slot
                       IN  MinSpace(intended_amount,
                                    calculate_available_space(current_slot, held_stack, cs),
                                    checks)

(* the loop of process_right_drag_end over the slots from the k-th on *)
RECURSIVE right_drag_end_loop(_, _, _, _, _)
right_drag_end_loop(cs, held, slots, k, checks) ==
    IF k > Len(slots) THEN World(cs, held, DragState_default, FALSE, FALSE)
    ELSE LET ref == slots[k] IN
         IF ref[1] \in DOMAIN cs
         THEN LET r == deposit_single_item(ref[2], cs[ref[1]], held, checks)
                  cs1 == [cs EXCEPT ![ref[1]] = r.inventory]
              IN  IF r.panicked \/ r.held = None
                  THEN World(cs1, r.held, DragState_default, r.panicked, FALSE)
                  ELSE right_drag_end_loop(cs1, r.held, slots, k + 1, checks)
         ELSE right_drag_end_loop(cs, held, slots, k + 1, checks)

(* process_right_drag_end (systems/inventory/drag.rs:126-151) *)
process_right_drag_end(cs, held, ds, checks) ==
    IF held = None THEN World(cs, held, ds, FALSE, FALSE)
    ELSE IF ds.right_drag_slots = << >> THEN World(cs, held, ds, FALSE, FALSE)
    ELSE [right_drag_end_loop(cs, held, ds.right_drag_slots, 1, checks) EXCEPT !.drag = ds]

(* the slots of the list, from the k-th on, that can accept items *)
RECURSIVE can_place_count(_, _, _, _)
can_place_count(slots, k, held_stack, cs) ==
    IF k > Len(slots) THEN 0
    ELSE (IF can_slot_accept_items(slots[k], held_stack, cs) THEN 1 ELSE 0)
         + can_place_count(slots, k + 1, held_stack, cs)

(* the loop of calculate_remaining_after_drag over the targets from the    *)
(* i-th (0-based) on: what can be placed, and whether a subtraction        *)
(* wrapped                                                                 *)
RECURSIVE total_can_place(_, _, _, _, _, _, _)
total_can_place(filtered_slots, i, items_per_slot, remainder, held_stack, cs, checks) ==
    IF i >= Len(filtered_slots) THEN [value |-> 0, overflow |-> FALSE, panicked |-> FALSE]
    ELSE LET intended_amount == IF i < remainder THEN items_per_slot + 1 ELSE items_per_slot
             can_place == MinSpace(intended_amount,
                                   calculate_available_space(filtered_slots[i + 1],
                                                             held_stack, cs), checks)
             rest == total_can_place(filtered_slots, i + 1, items_per_slot, remainder,
                                     held_stack, cs, checks)
         IN  IF can_place.panicked THEN can_place
             ELSE [value |-> can_place.value + rest.value,
                   overflow |-> can_place.overflow \/ rest.overflow,
                   panicked |-> rest.panicked]

(* calculate_remaining_after_drag (drag_visuals.rs:149-235) *)
calculate_remaining_after_drag(held_stack, ds, cs, checks) ==
    LET total_items == held_stack.size
        drag_slots == IF ds.is_right_dragging THEN ds.right_drag_slots ELSE ds.left_drag_slots
    IN  IF ds.is_right_dragging
        THEN [value |-> SaturatingSub(total_items, can_place_count(drag_slots, 1, held_stack, cs)),
              overflow |-> FALSE, panicked |-> FALSE]
        ELSE IF Len(drag_slots) = 1
        THEN LET can_place == MinSpace(held_stack.size,
                                       calculate_available_space(drag_slots[1], held_stack, cs),
                                       checks)
             IN  [can_place EXCEPT !.value = total_items - @]
        ELSE LET valid_slots == filter_valid_distribution_slots(drag_slots, held_stack, cs)
                 filtered_slots == filter_out_pickup_slot(valid_slots, ds.pickup_slot)
             IN  IF filtered_slots = << >>
                 THEN [value |-> total_items, overflow |-> FALSE, panicked |-> FALSE]
                 ELSE LET valid_slot_count == Len(filtered_slots)
                          placed == total_can_place(filtered_slots, 0,
                                                    total_items \div valid_slot_count,
                                                    total_items % valid_slot_count,
                                                    held_stack, cs, checks)
                      IN  [placed EXCEPT !.value = SaturatingSub(total_items, @)]

----------------------------------------------------------------------------
(* UI-mode transitions of the ContainerManager (containers.rs:108-151);    *)
(* cm is the record of the manager's fields.                               *)

open_inventory(cm) ==
    [cm EXCEPT !.ui_mode = InventoryOpen, !.layouts = << PlayerInventory, Hotbar >>]

close_inventory(cm) ==
    [cm EXCEPT !.ui_mode = HotbarOnly, !.layouts = << Hotbar >>]

(* open_chest that puts a new container in place of the chest's own *)
open_chest_replaces(cm, chest_id) ==
    LET chest_type == Chest(chest_id)
        created == [cm EXCEPT
                      !.containers = [k \in DOMAIN cm.containers \cup {chest_type} |->
                                         IF k = chest_type THEN SlotContainer_new(27)
                                         ELSE cm.containers[k]],
                      !.available_chests = IF Contains(@, chest_id) THEN @
                                           ELSE Append(@, chest_id)]
    IN  [created EXCEPT !.active_chest_id = Some(chest_id),
                        !.ui_mode = ChestOpen(chest_id),
                        !.layouts = << Chest(chest_id), PlayerInventory, Hotbar >>]

open_chest(cm, chest_id) ==
    LET chest_type == Chest(chest_id)
        created == IF chest_type \in DOMAIN cm.containers
                   THEN cm
                   ELSE [cm EXCEPT
                           !.containers = [k \in DOMAIN cm.containers \cup {chest_type} |->
                                              IF k = chest_type THEN SlotContainer_new(27)
                                              ELSE cm.containers[k]],
                           !.available_chests = IF Contains(@, chest_id) THEN @
                                                ELSE Append(@, chest_id)]
    IN  [created EXCEPT !.active_chest_id = Some(chest_id),
                        !.ui_mode = ChestOpen(chest_id),
                        !.layouts = << Chest(chest_id), PlayerInventory, Hotbar >>]

close_chest(cm) ==
    [cm EXCEPT !.active_chest_id = None, !.ui_mode = HotbarOnly, !.layouts = << Hotbar >>]

switch_chest(cm, chest_id) ==
    IF Contains(cm.available_chests, chest_id) THEN open_chest(cm, chest_id) ELSE cm

(* setup_game (world/inventory/ui.rs:41-70): the test items put into the   *)
(* default containers at startup                                           *)
RECURSIVE set_slots(_, _)
set_slots(c, writes) ==
    IF writes = << >> THEN c
    ELSE set_slots(set_slot(c, Head(writes)[1], Some(Head(writes)[2])), Tail(writes))

setup_game(cs) ==
    [cs EXCEPT
        ![Hotbar] = set_slots(@, << << 0, ItemStack_new(APPLE, 16) >>,
                                    << 1, ItemStack_new(BOW, 1) >>,
                                    << 2, ItemStack_new(IRON_SWORD, 1) >> >>),
        ![PlayerInventory] = set_slots(@, << << 0, ItemStack_new(APPLE, 32) >>,
                                             << 1, ItemStack_new(RING, 8) >>,
                                             << 9, ItemStack_new(GLASS_BOTTLE, 12) >> >>),
        ![Chest(1)] = set_slots(@, << << 0, ItemStack_new(BOW, 1) >>,
                                      << 1, ItemStack_new(IRON_SWORD, 1) >>,
                                      << 2, ItemStack_new(CHEESE, 3) >> >>),
        ![Chest(2)] = set_slots(@, << << 0, ItemStack_new(CHEESE, 64) >>,
                                      << 1, ItemStack_new(APPLE, 64) >>,
                                      << 2, ItemStack_new(GLASS_BOTTLE, 32) >> >>),
        ![Chest(3)] = set_slots(@, << << 0, ItemStack_new(IRON_SWORD, 1) >>,
                                      << 1, ItemStack_new(RING, 10) >> >>)]

----------------------------------------------------------------------------
(* Frame inputs *)

LeftPressed == [button |-> "Left", state |-> "Pressed"]
LeftReleased == [button |-> "Left", state |-> "Released"]
RightPressed == [button |-> "Right", state |-> "Pressed"]
RightReleased == [button |-> "Right", state |-> "Released"]

(* the cursor: outside the window, or inside it over no slot *)
CursorOutside == [window |-> FALSE, over |-> None]
CursorNowhere == [window |-> TRUE, over |-> None]

(* find_slot_under_cursor (utils/slot_finder.rs): the slot entity under    *)
(* the cursor, among the slot entities of the containers built by the last *)
(* UI rebuild                                                              *)
find_slot_under_cursor(cursor, built) ==
    IF IsSome(cursor.over) /\ Unwrap(cursor.over)[1] \in built
    THEN cursor.over
    ELSE None

NoEvents ==
    [open_inventory |-> 0, close_inventory |-> 0, open_chest |-> << >>,
     close_chest |-> 0, switch_chest |-> << >>]

----------------------------------------------------------------------------
(* The mouse systems as functions of the world (containers, held item,     *)
(* drag state), the events read in this frame and the slot under the       *)
(* cursor: src/src/systems/input.rs, src/src/systems/drag.rs               *)

Then(w, r) == [r EXCEPT !.overflow = w.overflow \/ r.overflow]

(* the event loop of handle_left_clicks_updated (input.rs:109-119) *)
RECURSIVE left_click_events(_, _, _, _)
left_click_events(w, events, slot, checks) ==
    IF events = << >> \/ w.panicked THEN w
    ELSE LET event == Head(events)
             clicked ==
                 IF /\ event = LeftReleased
                    /\ ~w.drag.is_left_dragging /\ ~w.drag.was_left_dragging_this_frame
                    /\ IsSome(slot) /\ Unwrap(slot)[1] \in DOMAIN w.containers
                 THEN LET ref == Unwrap(slot)
                          r == process_left_click(ref[2], w.containers[ref[1]], w.held, checks)
                      IN  Then(w, World([w.containers EXCEPT ![ref[1]] = r.inventory],
                                        r.held, w.drag, r.panicked, r.overflow))
                 ELSE w
         IN  left_click_events(clicked, Tail(events), slot, checks)

(* the event loop of handle_right_clicks_updated (input.rs:133-143) *)
RECURSIVE right_click_events(_, _, _, _)
right_click_events(w, events, slot, checks) ==
    IF events = << >> \/ w.panicked THEN w
    ELSE LET event == Head(events)
             clicked ==
                 IF /\ event = RightReleased
                    /\ ~w.drag.is_right_dragging /\ ~w.drag.was_right_dragging_this_frame
                    /\ IsSome(slot) /\ Unwrap(slot)[1] \in DOMAIN w.containers
                 THEN LET ref == Unwrap(slot)
                          r == process_right_click(ref[2], w.containers[ref[1]], w.held, checks)
                      IN  Then(w, World([w.containers EXCEPT ![ref[1]] = r.inventory],
                                        r.held, w.drag, r.panicked, r.overflow))
                 ELSE w
         IN  right_click_events(clicked, Tail(events), slot, checks)

(* the event loop in which a release leaves the visited list as it is *)
RECURSIVE left_drag_events_keeps_list(_, _, _)
left_drag_events_keeps_list(w, events, checks) ==
    IF events = << >> \/ w.panicked THEN w
    ELSE LET event == Head(events)
             after ==
                 CASE event = LeftPressed ->
                        IF IsSome(w.held)
                        THEN [w EXCEPT !.drag.is_left_dragging = TRUE,
                                       !.drag.left_drag_slots = << >>]
                        ELSE w
                   [] event = LeftReleased ->
                        LET ended ==
                                IF w.drag.is_left_dragging
                                THEN Then(w, process_drag_end(
                                        w.containers, w.held,
                                        [w.drag EXCEPT !.was_left_dragging_this_frame = TRUE],
                                        checks))
                                ELSE w
                        IN  [ended EXCEPT !.drag.is_left_dragging = FALSE]
                   [] OTHER -> w
         IN  left_drag_events_keeps_list(after, Tail(events), checks)

(* the event loop in which a press starts a left drag with an empty cursor *)
RECURSIVE left_drag_events_press_always(_, _, _)
left_drag_events_press_always(w, events, checks) ==
    IF events = << >> \/ w.panicked THEN w
    ELSE LET event == Head(events)
             after ==
                 CASE event = LeftPressed ->
                        [w EXCEPT !.drag.is_left_dragging = TRUE,
                                  !.drag.left_drag_slots = << >>]
                   [] event = LeftReleased ->
                        LET ended ==
                                IF w.drag.is_left_dragging
                                THEN Then(w, process_drag_end(
                                        w.containers, w.held,
                                        [w.drag EXCEPT !.was_left_dragging_this_frame = TRUE],
                                        checks))
                                ELSE w
                        IN  [ended EXCEPT !.drag.is_left_dragging = FALSE,
                                          !.drag.left_drag_slots = << >>]
                   [] OTHER -> w
         IN  left_drag_events_press_always(after, Tail(events), checks)

(* the event loop of handle_left_drag_deposit (drag.rs:23-44) *)
RECURSIVE left_drag_events(_, _, _)
left_drag_events(w, events, checks) ==
    IF events = << >> \/ w.panicked THEN w
    ELSE LET event == Head(events)
             after ==
                 CASE event = LeftPressed ->
                        IF IsSome(w.held)
                        THEN [w EXCEPT !.drag.is_left_dragging = TRUE,
                                       !.drag.left_drag_slots = << >>]
                        ELSE w
                   [] event = LeftReleased ->
                        LET ended ==
                                IF w.drag.is_left_dragging
                                THEN Then(w, process_drag_end(
                                        w.containers, w.held,
                                        [w.drag EXCEPT !.was_left_dragging_this_frame = TRUE],
                                        checks))
                                ELSE w
                        IN  [ended EXCEPT !.drag.is_left_dragging = FALSE,
                                          !.drag.left_drag_slots = << >>]
                   [] OTHER -> w
         IN  left_drag_events(after, Tail(events), checks)

(* handle_left_drag_deposit after the cursor checks (drag.rs:21-50) *)
sys_left_drag_deposit(w, events, slot, checks) ==
    LET w1 == left_drag_events([w EXCEPT !.drag.was_left_dragging_this_frame = FALSE],
                               events, checks)
    IN  IF ~w1.panicked /\ w1.drag.is_left_dragging /\ IsSome(w1.held) /\ IsSome(slot)
        THEN [w1 EXCEPT !.drag = add_left_drag_slot(@, Unwrap(slot)[1], Unwrap(slot)[2])]
        ELSE w1

(* the event loop of handle_right_drag_deposit (drag.rs:66-84) *)
RECURSIVE right_drag_events(_, _)
right_drag_events(w, events) ==
    IF events = << >> THEN w
    ELSE LET event == Head(events)
             after ==
                 CASE event = RightPressed ->
                        IF IsSome(w.held)
                        THEN [w EXCEPT !.drag.is_right_dragging = TRUE,
                                       !.drag.right_last_hovered_slot = None]
                        ELSE w
                   [] event = RightReleased ->
                        [w EXCEPT !.drag.was_right_dragging_this_frame =
                                      IF w.drag.is_right_dragging THEN TRUE ELSE @,
                                  !.drag.is_right_dragging = FALSE,
                                  !.drag.right_last_hovered_slot = None]
                   [] OTHER -> w
         IN  right_drag_events(after, Tail(events))

(* handle_right_drag_deposit that deposits in every frame of the drag *)
sys_right_drag_deposit_every_frame(w, events, slot, checks) ==
    LET w1 == right_drag_events([w EXCEPT !.drag.was_right_dragging_this_frame = FALSE], events)
    IN  IF /\ w1.drag.is_right_dragging /\ IsSome(w1.held) /\ IsSome(slot)
        THEN LET ref == Unwrap(slot)
                 w2 == [w1 EXCEPT !.drag.right_last_hovered_slot = slot]
             IN  IF ref[1] \in DOMAIN w2.containers
                 THEN LET r == deposit_single_item(ref[2], w2.containers[ref[1]], w2.held, checks)
                      IN  World([w2.containers EXCEPT ![ref[1]] = r.inventory],
                                r.held, w2.drag, r.panicked, r.overflow)
                 ELSE w2
        ELSE w1

(* handle_right_drag_deposit after the cursor checks (drag.rs:64-98) *)
sys_right_drag_deposit(w, events, slot, checks) ==
    LET w1 == right_drag_events([w EXCEPT !.drag.was_right_dragging_this_frame = FALSE], events)
    IN  IF /\ w1.drag.is_right_dragging /\ IsSome(w1.held) /\ IsSome(slot)
           /\ w1.drag.right_last_hovered_slot # slot
        THEN LET ref == Unwrap(slot)
                 w2 == [w1 EXCEPT !.drag.right_last_hovered_slot = slot]
             IN  IF ref[1] \in DOMAIN w2.containers
                 THEN LET r == deposit_single_item(ref[2], w2.containers[ref[1]], w2.held, checks)
                      IN  World([w2.containers EXCEPT ![ref[1]] = r.inventory],
                                r.held, w2.drag, r.panicked, r.overflow)
                 ELSE w2
        ELSE w1

sys_left_clicks(w, events, slot, checks) == left_click_events(w, events, slot, checks)

sys_right_clicks(w, events, slot, checks) == right_click_events(w, events, slot, checks)

----------------------------------------------------------------------------
(* Shift-click: src/src/utils/item_operations.rs:160-256.  The operators   *)
(* return the containers afterwards and whether the call panicked.         *)

(* SlotContainer::len *)
SlotContainer_len(c) == c.slot_count

(* the merge of the first pass that adds the whole stack, whatever the max *)
merge_into_existing_uncapped(existing_stack, stack) ==
    [existing |-> [existing_stack EXCEPT !.size = @ + stack.size],
     stack |-> [stack EXCEPT !.size = 0]]

(* the merge of the first pass of try_place_stack_in_container             *)
(* (item_operations.rs:232-237): the existing stack takes what it has room *)
(* for, saturating_sub giving 0 for a stack above its max                  *)
merge_into_existing(existing_stack, stack) ==
    LET max_size == MaxOf(existing_stack)
        available_space == IF max_size >= existing_stack.size
                           THEN max_size - existing_stack.size ELSE 0
        to_add == Min(available_space, stack.size)
    IN  [existing |-> [existing_stack EXCEPT !.size = @ + to_add],
         stack |-> [stack EXCEPT !.size = @ - to_add]]

(* the slots the first pass merges into: those holding a stack the moved   *)
(* stack can merge with (a matter of the item, not of the count)           *)
MergeSlots(container, stack) ==
    {i \in 0..(SlotContainer_len(container) - 1) :
        /\ IsSome(get_slot_mut(container, i))
        /\ can_merge_with(stack, Unwrap(get_slot_mut(container, i)))}

(* first pass (item_operations.rs:229-244) over the slots of merge_slots,  *)
(* in index order: placed tells that the stack ran out                     *)
RECURSIVE merge_pass(_, _, _)

(* the stack of slot_index has taken its share: m is the merge *)
merged_at(container, merge_slots, slot_index, m) ==
    IF m.stack.size = 0
    THEN [container |-> Store(container, slot_index, Some(m.existing)),
          stack |-> m.stack, placed |-> TRUE, panicked |-> FALSE]
    ELSE merge_pass(Store(container, slot_index, Some(m.existing)), m.stack,
                    merge_slots \ {slot_index})

merge_at(container, stack, merge_slots, slot_index) ==
    IF unwrap_panics(Unwrap(get_slot_mut(container, slot_index)))
    THEN [container |-> container, stack |-> stack, placed |-> FALSE, panicked |-> TRUE]
    ELSE merged_at(container, merge_slots, slot_index,
                   merge_into_existing(Unwrap(get_slot_mut(container, slot_index)), stack))

merge_pass(container, stack, merge_slots) ==
    IF merge_slots = {}
    THEN [container |-> container, stack |-> stack, placed |-> FALSE, panicked |-> FALSE]
    ELSE merge_at(container, stack, merge_slots,
                  CHOOSE i \in merge_slots : \A j \in merge_slots : i <= j)

EmptySlots(container) ==
    {i \in 0..(SlotContainer_len(container) - 1) : get_slot(container, i) = None}

place_at(first, slot_index) ==
    [container |-> set_slot(first.container, slot_index, Some(first.stack)),
     ret |-> None, panicked |-> set_slot_panics(first.container, slot_index)]

(* second pass (item_operations.rs:246-252) on what the first pass left,   *)
(* empty being its empty slots: ret is the Option<ItemStack> returned      *)
place_in_first_empty(first, empty) ==
    IF first.panicked \/ first.placed
    THEN [container |-> first.container, ret |-> None, panicked |-> first.panicked]
    ELSE IF empty # {}
    THEN place_at(first, CHOOSE i \in empty : \A j \in empty : i <= j)
    ELSE [container |-> first.container, ret |-> Some(first.stack), panicked |-> FALSE]

second_pass(first) == place_in_first_empty(first, EmptySlots(first.container))

try_place_stack_in_container(container, stack) ==
    second_pass(merge_pass(container, stack, MergeSlots(container, stack)))

(* targets whatever the UI mode *)
get_shift_click_targets_any_mode(source_type, mode) ==
    IF source_type = Hotbar THEN << PlayerInventory >> ELSE << Hotbar >>

get_shift_click_targets(source_type, mode) ==
    CASE source_type = Hotbar /\ mode = InventoryOpen -> << PlayerInventory >>
      [] source_type = Hotbar /\ mode.mode = "ChestOpen" ->
             << Chest(mode.id), PlayerInventory >>
      [] source_type = PlayerInventory /\ mode = InventoryOpen -> << Hotbar >>
      [] source_type = PlayerInventory /\ mode.mode = "ChestOpen" -> << Chest(mode.id) >>
      [] source_type.type = "Chest" /\ mode.mode = "ChestOpen" ->
             << PlayerInventory, Hotbar >>
      [] OTHER -> << >>

(* the loop over the target containers (item_operations.rs:179-188): ret   *)
(* is the stack left over, or None once everything is placed               *)
RECURSIVE place_in_targets(_, _, _)

(* r is what try_place_stack_in_container has made of the target *)
placed_in(cs, target_containers, r) ==
    IF r.panicked \/ r.ret = None
    THEN [containers |-> [cs EXCEPT ![Head(target_containers)] = r.container],
          ret |-> None, panicked |-> r.panicked]
    ELSE place_in_targets([cs EXCEPT ![Head(target_containers)] = r.container],
                          Tail(target_containers), Unwrap(r.ret))

place_in_targets(cs, target_containers, item_stack) ==
    IF target_containers = << >>
    THEN [containers |-> cs, ret |-> Some(item_stack), panicked |-> FALSE]
    ELSE IF Head(target_containers) \in DOMAIN cs
    THEN placed_in(cs, target_containers,
                   try_place_stack_in_container(cs[Head(target_containers)], item_stack))
    ELSE place_in_targets(cs, Tail(target_containers), item_stack)

(* the leftover is not put back *)
put_back_leftover_drops(cs, source_container_type, slot_index, item_stack) ==
    [containers |-> cs, panicked |-> FALSE]

(* item_operations.rs:190-193 *)
put_back_leftover(cs, source_container_type, slot_index, item_stack) ==
    IF source_container_type \in DOMAIN cs
    THEN [containers |-> [cs EXCEPT ![source_container_type] =
                                        set_slot(@, slot_index, Some(item_stack))],
          panicked |-> set_slot_panics(cs[source_container_type], slot_index)]
    ELSE [containers |-> cs, panicked |-> FALSE]

(* r is what the loop over the targets has left *)
shift_click_leftover(slot_index, source_container_type, r) ==
    IF r.panicked \/ r.ret = None
    THEN [containers |-> r.containers, panicked |-> r.panicked]
    ELSE put_back_leftover(r.containers, source_container_type, slot_index,
                           Unwrap(r.ret))

process_shift_click(slot_index, source_container_type, cs, mode) ==
    IF source_container_type \notin DOMAIN cs
    THEN [containers |-> cs, panicked |-> FALSE]
    ELSE IF get_slot(cs[source_container_type], slot_index) = None
    THEN [containers |-> cs, panicked |-> FALSE]
    ELSE shift_click_leftover(
             slot_index, source_container_type,
             place_in_targets([cs EXCEPT ![source_container_type] = take_slot(@, slot_index)],
                              get_shift_click_targets(source_container_type, mode),
                              Unwrap(get_slot(cs[source_container_type], slot_index))))

----------------------------------------------------------------------------
(* The frame loop of src/src/main.rs: every frame runs each system once;   *)
(* handle_keyboard_input, handle_container_events and handle_ui_rebuild    *)
(* are chained, the other systems run after handle_ui_rebuild in an order  *)
(* the scheduler chooses.                                                  *)

MaxFrames == 4

MouseSystems == {"handle_left_clicks_updated", "handle_left_drag_deposit",
                 "handle_right_clicks_updated", "handle_right_drag_deposit"}

Systems == {"handle_keyboard_input", "handle_container_events", "handle_ui_rebuild",
            "handle_chest_button_clicks"} \cup MouseSystems

(* the slots the cursor is moved over *)
HoverSlots == {SlotRef(Hotbar, 0), SlotRef(Hotbar, 3), SlotRef(PlayerInventory, 9),
               SlotRef(Chest(2), 2)}

SlotCursors == {[window |-> TRUE, over |-> Some(r)] : r \in HoverSlots}

(* the mouse button events of one frame *)
SingleEventLists == { << >>, << LeftPressed >>, << LeftReleased >>,
                      << RightPressed >>, << RightReleased >> }

MouseEventLists == SingleEventLists \cup { << LeftPressed, LeftReleased >>,
                                           << RightPressed, RightReleased >> }

ReleaseEventLists == { << >>, << LeftReleased >>, << RightReleased >> }

Keys == {"KeyE", "KeyC", "Escape"}

ChestButtons == {2}

FrameInput(key, chest_button, cursor, mouse_events) ==
    [key |-> key, chest_button |-> chest_button, cursor |-> cursor, mouse_events |-> mouse_events]

(* a frame has a key press, a press on a chest button, or mouse input on the slots *)
FrameInputs ==
    {FrameInput(k, 0, CursorNowhere, << >>) : k \in Keys}
    \cup {FrameInput("none", b, CursorNowhere, << LeftPressed >>) : b \in ChestButtons}
    \cup {FrameInput("none", 0, c, m) : c \in SlotCursors, m \in MouseEventLists}
    \cup {FrameInput("none", 0, CursorNowhere, m) : m \in SingleEventLists}
    \cup {FrameInput("none", 0, CursorOutside, m) : m \in ReleaseEventLists}

ChecksOf(b) == IF b = "any" THEN {TRUE, FALSE} ELSE {b = "debug"}

NoOp == [op |-> "none"]

Init ==
    /\ containers = setup_game(ContainerManager_default.containers)
    /\ ui_mode = ContainerManager_default.ui_mode
    /\ layouts = ContainerManager_default.layouts
    /\ available_chests = ContainerManager_default.available_chests
    /\ active_chest_id = ContainerManager_default.active_chest_id
    /\ held_item = None
    /\ drag_state = DragState_default
    /\ ui_slots = {Hotbar}
    /\ rebuild_needed = FALSE
    /\ container_events = NoEvents
    /\ mouse_queue = [s \in MouseSystems |-> << >>]
    /\ input = [key |-> "none", chest_button |-> 0, cursor |-> CursorNowhere, mouse_events |-> << >>]
    /\ pending = {}
    /\ frame = 0
    /\ panicked = FALSE
    /\ build = "any"
    /\ last = NoOp
    /\ pickup_origin = None
    /\ right_gesture = << >>
    /\ visual_pending = {}
    /\ container_state = None
    /\ app_exit = FALSE

manager_vars == << containers, ui_mode, layouts, available_chests, active_chest_id >>

(* a cursor over a slot is over a slot entity of the UI, as built or as    *)
(* the queued chest switch is about to build it                            *)
OverBuiltSlot(cursor) ==
    IF cursor.over = None THEN TRUE
    ELSE \/ Unwrap(cursor.over)[1] \in ui_slots
         \/ \E i \in 1..Len(container_events.switch_chest) :
               Unwrap(cursor.over)[1] = Chest(container_events.switch_chest[i])

(* a new frame: the inputs arrive; an event a reader did not read in the   *)
(* previous frame is still readable in this one, older ones are dropped    *)
StartFrame(frames, visual) ==
    /\ pending = {} /\ visual_pending = {} /\ ~panicked /\ ~app_exit /\ frame < frames
    /\ \E inp \in FrameInputs :
        /\ OverBuiltSlot(inp.cursor)
        /\ input' = inp
        /\ mouse_queue' = [s \in MouseSystems |-> mouse_queue[s] \o inp.mouse_events]
    /\ frame' = frame + 1
    /\ pending' = Systems
    /\ visual_pending' = visual
    /\ UNCHANGED << manager_vars, held_item, drag_state, ui_slots, rebuild_needed,
                    container_events, panicked, build, last, pickup_origin, right_gesture,
                    container_state, app_exit >>

(* a frame of the systems that change the inventory state *)
BeginFrame == StartFrame(MaxFrames, {})

Run(s) == s \in pending /\ ~panicked /\ pending' = pending \ {s}

IdleInput == FrameInput("none", 0, CursorNowhere, << >>)

(* the event buffers at the end of the frame: what a reader left unread of *)
(* this frame's events stays readable for one more frame                   *)
EndOfFrame(queue) == [s \in DOMAIN queue |-> IF queue[s] = << >> THEN << >> ELSE input.mouse_events]

(* input.rs:10-54 *)
handle_keyboard_input ==
    /\ Run("handle_keyboard_input")
    /\ container_events' =
         CASE input.key = "KeyE" /\ ui_mode = HotbarOnly ->
                [container_events EXCEPT !.open_inventory = @ + 1]
           [] input.key = "KeyE" /\ ui_mode # HotbarOnly ->
                [container_events EXCEPT !.close_inventory = @ + 1]
           [] input.key = "KeyC" /\ ui_mode.mode = "ChestOpen" ->
                [container_events EXCEPT !.close_chest = @ + 1]
           [] input.key = "KeyC" /\ ui_mode.mode # "ChestOpen" ->
                [container_events EXCEPT !.open_chest = Append(@, 1)]
           [] input.key = "Escape" /\ ui_mode.mode = "ChestOpen" ->
                [container_events EXCEPT !.close_chest = @ + 1]
           [] input.key = "Escape" /\ ui_mode = InventoryOpen ->
                [container_events EXCEPT !.close_inventory = @ + 1]
           [] OTHER -> container_events
    /\ UNCHANGED << manager_vars, held_item, drag_state, ui_slots, rebuild_needed,
                    mouse_queue, input, frame, panicked, build, last, pickup_origin, right_gesture, visual_pending,
           container_state, app_exit >>

(* container.rs:30-33: for event in open_chest_events.read() *)
RECURSIVE open_chest_events(_, _)
open_chest_events(ids, cm) ==
    IF ids = << >> THEN cm ELSE open_chest_events(Tail(ids), open_chest(cm, Head(ids)))

(* container.rs:40-43: for event in switch_chest_events.read() *)
RECURSIVE switch_chest_events(_, _)
switch_chest_events(ids, cm) ==
    IF ids = << >> THEN cm ELSE switch_chest_events(Tail(ids), switch_chest(cm, Head(ids)))

(* systems/container.rs:9-48; the transitions are idempotent, so applying  *)
(* one once stands for applying it for every queued event of its kind      *)
handle_container_events ==
    /\ Run("handle_container_events")
    /\ "handle_keyboard_input" \notin pending
    /\ LET cm0 == [containers |-> containers, ui_mode |-> ui_mode, layouts |-> layouts,
                   available_chests |-> available_chests, active_chest_id |-> active_chest_id]
           cm1 == IF container_events.open_inventory = 0 THEN cm0 ELSE open_inventory(cm0)
           cm2 == IF container_events.close_inventory = 0 THEN cm1 ELSE close_inventory(cm1)
           cm3 == open_chest_events(container_events.open_chest, cm2)
           cm4 == IF container_events.close_chest = 0 THEN cm3 ELSE close_chest(cm3)
           cm5 == switch_chest_events(container_events.switch_chest, cm4)
       IN  /\ containers' = cm5.containers
           /\ ui_mode' = cm5.ui_mode
           /\ layouts' = cm5.layouts
           /\ available_chests' = cm5.available_chests
           /\ active_chest_id' = cm5.active_chest_id
    /\ rebuild_needed' = (rebuild_needed \/ container_events # NoEvents)
    /\ container_events' = NoEvents
    /\ UNCHANGED << held_item, drag_state, ui_slots, mouse_queue, input, frame,
                    panicked, build, last, pickup_origin, right_gesture, visual_pending,
           container_state, app_exit >>

(* systems/container.rs:50-68 *)
handle_ui_rebuild ==
    /\ Run("handle_ui_rebuild")
    /\ "handle_container_events" \notin pending
    /\ ui_slots' = IF rebuild_needed THEN {layouts[i] : i \in 1..Len(layouts)} ELSE ui_slots
    /\ rebuild_needed' = FALSE
    /\ UNCHANGED << manager_vars, held_item, drag_state, container_events, mouse_queue,
                    input, frame, panicked, build, last, pickup_origin, right_gesture, visual_pending,
           container_state, app_exit >>

(* input.rs:145-156; it shares no resource with the mouse systems, so it   *)
(* is scheduled first among the systems that run after handle_ui_rebuild   *)
handle_chest_button_clicks ==
    /\ Run("handle_chest_button_clicks")
    /\ "handle_ui_rebuild" \notin pending
    /\ container_events' =
         IF input.chest_button # 0
         THEN [container_events EXCEPT !.switch_chest = Append(@, input.chest_button)]
         ELSE container_events
    /\ UNCHANGED << manager_vars, held_item, drag_state, ui_slots, rebuild_needed,
                    mouse_queue, input, frame, panicked, build, last, pickup_origin, right_gesture, visual_pending,
           container_state, app_exit >>

(* the slot the held stack was most recently removed from, once a system   *)
(* acting on the slot under the cursor has turned the held item from       *)
(* before into after: a stack of another kind, or a stack in an empty      *)
(* cursor, was lifted from that slot                                       *)
lifted_from(before, after, origin, slot) ==
    IF after = None THEN None
    ELSE IF before = None THEN slot
    ELSE IF Unwrap(before).item # Unwrap(after).item THEN slot
    ELSE origin

(* history: the frames of the current right-drag gesture once            *)
(* handle_right_drag_deposit has read the events and given the world w:    *)
(* for each frame the slot under the cursor and the units that left the    *)
(* cursor; a release, or a press with a stack on the cursor, starts over   *)
gesture_frames(w, events, slot) ==
    IF ~w.drag.is_right_dragging THEN << >>
    ELSE LET units(held) == IF held = None THEN 0 ELSE Unwrap(held).size
             restarted == \E i \in DOMAIN events :
                              \/ events[i] = RightReleased
                              \/ events[i] = RightPressed /\ IsSome(held_item)
             entry == [over |-> slot, moved |-> units(held_item) - units(w.held),
                       hovered |-> IF restarted THEN None
                                   ELSE drag_state.right_last_hovered_slot]
         IN  IF restarted THEN << entry >> ELSE Append(right_gesture, entry)

(* a mouse system s whose body, past its cursor checks, gives the world w: *)
(* it returns before reading its events when the window has no cursor      *)
(* position; the system that runs last ends the frame                      *)
MouseSystem(s, checks, w) ==
    /\ "handle_chest_button_clicks" \notin pending
    /\ IF ~input.cursor.window
       THEN /\ mouse_queue' = IF pending = {s} THEN EndOfFrame(mouse_queue) ELSE mouse_queue
            /\ UNCHANGED << containers, held_item, drag_state, panicked, build,
                            pickup_origin >>
       ELSE /\ panicked' = w.panicked
            /\ build' = IF w.overflow THEN (IF checks THEN "debug" ELSE "release") ELSE build
            /\ containers' = w.containers
            /\ held_item' = w.held
            /\ drag_state' = w.drag
            /\ mouse_queue' = IF pending = {s} THEN EndOfFrame([mouse_queue EXCEPT ![s] = << >>])
                               ELSE [mouse_queue EXCEPT ![s] = << >>]
            /\ pickup_origin' = lifted_from(held_item, w.held, pickup_origin,
                                            find_slot_under_cursor(input.cursor, ui_slots))
    /\ right_gesture' = IF s # "handle_right_drag_deposit" THEN right_gesture
                         ELSE IF input.cursor.window
                         THEN gesture_frames(w, mouse_queue[s],
                                             find_slot_under_cursor(input.cursor, ui_slots))
                         ELSE IF drag_state.is_right_dragging
                         THEN Append(right_gesture, [over |-> None, moved |-> 0,
                                                     hovered |-> drag_state.right_last_hovered_slot])
                         ELSE right_gesture
    /\ input' = IF pending = {s} THEN IdleInput ELSE input
    /\ UNCHANGED << ui_mode, layouts, available_chests, active_chest_id, ui_slots,
                    rebuild_needed, container_events, frame, last, visual_pending,
           container_state, app_exit >>

(* the world a mouse system starts from *)
Here == World(containers, held_item, drag_state, FALSE, FALSE)

(* input.rs:97-119 *)
handle_left_clicks_updated ==
    /\ Run("handle_left_clicks_updated")
    /\ \E checks \in ChecksOf(build) :
         MouseSystem("handle_left_clicks_updated", checks,
                     sys_left_clicks(Here, mouse_queue["handle_left_clicks_updated"],
                                     find_slot_under_cursor(input.cursor, ui_slots), checks))

(* drag.rs:10-51 *)
handle_left_drag_deposit ==
    /\ Run("handle_left_drag_deposit")
    /\ \E checks \in ChecksOf(build) :
         MouseSystem("handle_left_drag_deposit", checks,
                     sys_left_drag_deposit(Here, mouse_queue["handle_left_drag_deposit"],
                                           find_slot_under_cursor(input.cursor, ui_slots), checks))

(* input.rs:121-143 *)
handle_right_clicks_updated ==
    /\ Run("handle_right_clicks_updated")
    /\ \E checks \in ChecksOf(build) :
         MouseSystem("handle_right_clicks_updated", checks,
                     sys_right_clicks(Here, mouse_queue["handle_right_clicks_updated"],
                                      find_slot_under_cursor(input.cursor, ui_slots), checks))

(* drag.rs:53-99 *)
handle_right_drag_deposit ==
    /\ Run("handle_right_drag_deposit")
    /\ \E checks \in ChecksOf(build) :
         MouseSystem("handle_right_drag_deposit", checks,
                     sys_right_drag_deposit(Here, mouse_queue["handle_right_drag_deposit"],
                                            find_slot_under_cursor(input.cursor, ui_slots), checks))

Next ==
    \/ BeginFrame
    \/ handle_keyboard_input
    \/ handle_container_events
    \/ handle_ui_rebuild
    \/ handle_chest_button_clicks
    \/ handle_left_clicks_updated
    \/ handle_left_drag_deposit
    \/ handle_right_clicks_updated
    \/ handle_right_drag_deposit

Spec == Init /\ [][Next]_vars

----------------------------------------------------------------------------
(* The frame loop with the visual systems of main.rs:67-70, which are      *)
(* registered in the same set as the click and drag systems, after         *)
(* handle_ui_rebuild and with no order among the systems of the set.       *)

SchedFrames == 2

VisualSystems == {"update_slot_visuals", "update_held_item_display",
                  "update_selected_item_display"}

(* a frame of all the systems of the Update schedule *)
BeginFrameVisual == StartFrame(SchedFrames, VisualSystems)

(* a visual system s runs: it writes UI components only *)
RunVisual(s) ==
    /\ s \in visual_pending /\ ~panicked
    /\ "handle_ui_rebuild" \notin pending
    /\ visual_pending' = visual_pending \ {s}
    /\ UNCHANGED << manager_vars, held_item, drag_state, ui_slots, rebuild_needed,
                    container_events, mouse_queue, input, pending, frame, last,
                    pickup_origin, right_gesture, container_state, app_exit >>

(* systems/visual.rs:115-271: during a left drag with a held stack the     *)
(* preview of every slot of the UI is computed                             *)
update_slot_visuals ==
    /\ RunVisual("update_slot_visuals")
    /\ \E checks \in ChecksOf(build) :
         LET slots == {SlotRef(c, i) : c \in ui_slots \cap DOMAIN containers, i \in 0..26}
             overflow ==
                 /\ ~rebuild_needed /\ ui_slots # {}
                 /\ drag_state.is_left_dragging /\ IsSome(held_item)
                 /\ \E ref \in slots :
                       /\ InRange(containers[ref[1]], ref[2])
                       /\ calculate_drag_preview(ref, drag_state, held_item,
                                                 containers, checks).overflow
         IN  /\ panicked' = (overflow /\ checks)
             /\ build' = IF overflow THEN (IF checks THEN "debug" ELSE "release") ELSE build

(* systems/visual.rs:273-296 *)
update_held_item_display ==
    /\ RunVisual("update_held_item_display")
    /\ UNCHANGED << panicked, build >>

(* systems/visual.rs:317-339 *)
update_selected_item_display ==
    /\ RunVisual("update_selected_item_display")
    /\ UNCHANGED << panicked, build >>

NextSched ==
    \/ BeginFrameVisual
    \/ handle_keyboard_input
    \/ handle_container_events
    \/ handle_ui_rebuild
    \/ handle_chest_button_clicks
    \/ handle_left_clicks_updated
    \/ handle_left_drag_deposit
    \/ handle_right_clicks_updated
    \/ handle_right_drag_deposit
    \/ update_slot_visuals
    \/ update_held_item_display
    \/ update_selected_item_display

SpecSched == Init /\ [][NextSched]_vars

----------------------------------------------------------------------------
(* The frame loop with exit_handler (main.rs:48, 78-86), which is added to *)
(* the Update schedule on its own: no order is declared between it and the *)
(* chained systems, so the scheduler runs it before, between or after      *)
(* them.  The app leaves its loop after the frame that sent AppExit.       *)

ExitFrames == 2

(* a frame has a key press or none *)
ExitInputs == {FrameInput(k, 0, CursorNowhere, << >>) : k \in Keys \cup {"none"}}

(* main.rs:83: whether exit_handler sends AppExit *)
exit_handler_sends(keys, mode) == keys = "Escape" /\ mode = HotbarOnly

(* a new frame of the chained systems and exit_handler; the UI mode the    *)
(* frame starts with and the key pressed in it are kept in last           *)
BeginFrameExit ==
    /\ pending = {} /\ visual_pending = {} /\ ~panicked /\ ~app_exit /\ frame < ExitFrames
    /\ \E inp \in ExitInputs :
        /\ input' = inp
        /\ mouse_queue' = [s \in MouseSystems |-> mouse_queue[s] \o inp.mouse_events]
        /\ last' = [op |-> "frame", ui_mode |-> ui_mode, key |-> inp.key]
    /\ frame' = frame + 1
    /\ pending' = Systems
    /\ visual_pending' = {"exit_handler"}
    /\ UNCHANGED << manager_vars, held_item, drag_state, ui_slots, rebuild_needed,
                    container_events, panicked, build, pickup_origin, right_gesture,
                    container_state, app_exit >>

(* main.rs:78-86 *)
exit_handler ==
    /\ "exit_handler" \in visual_pending /\ ~panicked
    /\ visual_pending' = visual_pending \ {"exit_handler"}
    /\ app_exit' = (app_exit \/ exit_handler_sends(input.key, ui_mode))
    /\ UNCHANGED << manager_vars, held_item, drag_state, ui_slots, rebuild_needed,
                    container_events, mouse_queue, input, pending, frame, panicked, build,
                    last, pickup_origin, right_gesture, container_state >>

NextExit ==
    \/ BeginFrameExit
    \/ exit_handler
    \/ handle_keyboard_input
    \/ handle_container_events
    \/ handle_ui_rebuild
    \/ handle_chest_button_clicks
    \/ handle_left_clicks_updated
    \/ handle_left_drag_deposit
    \/ handle_right_clicks_updated
    \/ handle_right_drag_deposit

SpecExit == Init /\ [][NextExit]_vars

----------------------------------------------------------------------------
(* Single operations: one click, one merge or one drag release applied to  *)
(* a world drawn from bounded sets of slot contents, held stacks and       *)
(* visited lists.  The stacks drawn are stacks the frame loop reaches:     *)
(* within max, the over-max stack of setup_game, and the zero-count held   *)
(* stack a wrapped try_merge leaves behind in a build without overflow     *)
(* checks.                                                                 *)

MaxHeld == 9

MaxVisited == 4

(* the slots the operations act on *)
OpSlots == << SlotRef(Hotbar, 0), SlotRef(Hotbar, 1), SlotRef(Hotbar, 2),
              SlotRef(PlayerInventory, 0) >>

(* the contents drawn for each of the OpSlots *)
OpFills ==
    << {None, Some(ItemStack_new(GLASS_BOTTLE, 15)), Some(ItemStack_new(GLASS_BOTTLE, 16)),
        Some(ItemStack_new(GLASS_BOTTLE, 32)), Some(ItemStack_new(BOW, 1))},
       {None, Some(ItemStack_new(GLASS_BOTTLE, 15)), Some(ItemStack_new(BOW, 1))},
       {None, Some(ItemStack_new(GLASS_BOTTLE, 14))},
       {None, Some(ItemStack_new(GLASS_BOTTLE, 16))} >>

OpHeld ==
    {None, Some(ItemStack_new(BOW, 1))}
    \cup {Some(ItemStack_new(GLASS_BOTTLE, n)) : n \in 0..MaxHeld}

(* the containers of the manager with the given contents in the OpSlots *)
RECURSIVE fill_slots(_, _, _)
fill_slots(cs, fills, k) ==
    IF k > Len(OpSlots) THEN cs
    ELSE fill_slots([cs EXCEPT ![OpSlots[k][1]] = Store(@, OpSlots[k][2], fills[k])],
                    fills, k + 1)

(* the visited lists of a left drag: slots in hover order, none twice *)
VisitedLists ==
    { [i \in 1..Len(f) |-> OpSlots[f[i]]] :
        f \in UNION {[1..m -> 1..Len(OpSlots)] : m \in 0..Min(MaxVisited, Len(OpSlots))} }

Distinct(seq) == \A i, j \in 1..Len(seq) : i # j => seq[i] # seq[j]

InitOps ==
    /\ \E f1 \in OpFills[1], f2 \in OpFills[2], f3 \in OpFills[3], f4 \in OpFills[4] :
          containers = fill_slots(ContainerManager_default.containers, << f1, f2, f3, f4 >>, 1)
    /\ ui_mode = InventoryOpen
    /\ layouts = open_inventory(ContainerManager_default).layouts
    /\ available_chests = ContainerManager_default.available_chests
    /\ active_chest_id = ContainerManager_default.active_chest_id
    /\ held_item \in OpHeld
    /\ \/ drag_state = DragState_default
       \/ /\ IsSome(held_item)
          /\ \E visited \in VisitedLists :
                /\ Distinct(visited)
                /\ \E pickup \in {None} \cup {Some(visited[i]) : i \in 1..Len(visited)} :
                      drag_state = [DragState_default EXCEPT !.is_left_dragging = TRUE,
                                                            !.left_drag_slots = visited,
                                                            !.pickup_slot = pickup]
    /\ ui_slots = {PlayerInventory, Hotbar}
    /\ rebuild_needed = FALSE
    /\ container_events = NoEvents
    /\ mouse_queue = [s \in MouseSystems |-> << >>]
    /\ input = IdleInput
    /\ pending = {}
    /\ frame = 0
    /\ panicked = FALSE
    /\ build = IF IsSome(held_item) /\ Unwrap(held_item).size = 0 THEN "release" ELSE "any"
    /\ last = NoOp
    /\ pickup_origin = None
    /\ right_gesture = << >>
    /\ visual_pending = {}
    /\ container_state = None
    /\ app_exit = FALSE

frame_vars == << ui_mode, layouts, available_chests, active_chest_id, ui_slots,
                rebuild_needed, container_events, mouse_queue, input, pending, frame,
                pickup_origin, right_gesture, visual_pending,
           container_state, app_exit >>

(* the world w is what operation op on slot ref, in a build with or        *)
(* without overflow checks, left behind                                    *)
Applied(op, ref, checks, w) ==
    /\ last = NoOp
    /\ containers' = w.containers
    /\ held_item' = w.held
    /\ drag_state' = w.drag
    /\ panicked' = w.panicked
    /\ build' = IF w.overflow THEN (IF checks THEN "debug" ELSE "release") ELSE build
    /\ last' = [op |-> op, ref |-> ref, checks |-> checks, containers |-> containers,
                held |-> held_item, drag |-> drag_state]
    /\ UNCHANGED frame_vars

(* a plain left click on a slot: one LeftReleased for handle_left_clicks_updated *)
op_left_click ==
    \E k \in 1..Len(OpSlots), checks \in ChecksOf(build) :
        /\ ~drag_state.is_left_dragging
        /\ Applied("left_click", Some(OpSlots[k]), checks,
                   sys_left_clicks(Here, << LeftReleased >>, Some(OpSlots[k]), checks))

(* two left clicks on the same slot, one after the other: two LeftReleased *)
(* for handle_left_clicks_updated                                          *)
op_left_click_twice ==
    \E k \in 1..Len(OpSlots), checks \in ChecksOf(build) :
        /\ ~drag_state.is_left_dragging
        /\ Applied("left_click_twice", Some(OpSlots[k]), checks,
                   sys_left_clicks(Here, << LeftReleased, LeftReleased >>,
                                   Some(OpSlots[k]), checks))

(* a plain right click on a slot: one RightReleased for handle_right_clicks_updated *)
op_right_click ==
    \E k \in 1..Len(OpSlots), checks \in ChecksOf(build) :
        /\ ~drag_state.is_left_dragging
        /\ Applied("right_click", Some(OpSlots[k]), checks,
                   sys_right_clicks(Here, << RightReleased >>, Some(OpSlots[k]), checks))

(* held.try_merge(&mut stack of the slot), both stacks present *)
op_try_merge ==
    \E k \in 1..Len(OpSlots), checks \in ChecksOf(build) :
        /\ ~drag_state.is_left_dragging
        /\ IsSome(held_item) /\ IsSome(SlotAt(containers, OpSlots[k]))
        /\ LET ref == OpSlots[k]
               m == try_merge(Unwrap(held_item), Unwrap(SlotAt(containers, ref)), checks)
           IN  Applied("try_merge", Some(ref), checks,
                       World([containers EXCEPT ![ref[1]] = Store(@, ref[2], Some(m.other))],
                             Some(m.self), drag_state, m.panicked, m.overflow))

(* the release of a left drag: one LeftReleased for handle_left_drag_deposit *)
op_drag_end ==
    \E checks \in ChecksOf(build) :
        /\ drag_state.is_left_dragging
        /\ Applied("drag_end", None, checks,
                   sys_left_drag_deposit(Here, << LeftReleased >>, None, checks))

(* stack.split_half() on the stack of a slot (k >= 1) or on the held stack *)
(* (k = 0); the stack is left where it was, the returned Option is kept   *)
op_split_half ==
    \E k \in 0..Len(OpSlots) :
        LET place == IF k = 0 THEN held_item ELSE SlotAt(containers, OpSlots[k]) IN
        /\ ~drag_state.is_left_dragging
        /\ last = NoOp
        /\ IsSome(place)
        /\ LET s == split_half(Unwrap(place)) IN
           /\ held_item' = IF k = 0 THEN Some(s.self) ELSE held_item
           /\ containers' = IF k = 0 THEN containers
                            ELSE [containers EXCEPT ![OpSlots[k][1]] =
                                     Store(@, OpSlots[k][2], Some(s.self))]
           /\ last' = [op |-> "split_half", ref |-> IF k = 0 THEN None ELSE Some(OpSlots[k]),
                       checks |-> TRUE, containers |-> containers, held |-> held_item,
                       drag |-> drag_state, ret |-> s.ret]
        /\ UNCHANGED << drag_state, panicked, build >>
        /\ UNCHANGED frame_vars

NextOps ==
    \/ op_left_click
    \/ op_left_click_twice
    \/ op_right_click
    \/ op_try_merge
    \/ op_drag_end
    \/ op_split_half

SpecOps == InitOps /\ [][NextOps]_vars

----------------------------------------------------------------------------
(* The read-only preview functions evaluated on the bounded worlds: last   *)
(* holds the function evaluated, the world it read and what it returned.   *)

(* calculate_drag_preview for each of the OpSlots, as update_slot_visuals  *)
(* calls it for every slot                                                 *)
op_drag_preview ==
    \E checks \in ChecksOf(build) :
        LET preview == [k \in 1..Len(OpSlots) |->
                           calculate_drag_preview(OpSlots[k], drag_state, held_item,
                                                  containers, checks)]
            overflow == \E k \in 1..Len(OpSlots) : preview[k].overflow
        IN  /\ last = NoOp
            /\ last' = [op |-> "drag_preview", ref |-> None, checks |-> checks,
                        containers |-> containers, held |-> held_item, drag |-> drag_state,
                        ret |-> [k \in 1..Len(OpSlots) |-> preview[k].value]]
            /\ panicked' = \E k \in 1..Len(OpSlots) : preview[k].panicked
            /\ build' = IF overflow THEN (IF checks THEN "debug" ELSE "release") ELSE build
            /\ UNCHANGED << containers, held_item, drag_state >>
            /\ UNCHANGED frame_vars

(* calculate_remaining_after_drag on the held stack, as the held-item      *)
(* display calls it while a drag has visited a slot; ret is the list of    *)
(* the one count returned                                                  *)
op_remaining_after_drag ==
    \E checks \in ChecksOf(build) :
        /\ last = NoOp
        /\ IsSome(held_item)
        /\ \/ drag_state.is_left_dragging /\ drag_state.left_drag_slots # << >>
           \/ drag_state.is_right_dragging /\ drag_state.right_drag_slots # << >>
        /\ LET remaining == calculate_remaining_after_drag(Unwrap(held_item), drag_state,
                                                          containers, checks)
           IN  /\ last' = [op |-> "remaining_after_drag", ref |-> None, checks |-> checks,
                           containers |-> containers, held |-> held_item,
                           drag |-> drag_state, ret |-> << remaining.value >>]
               /\ panicked' = remaining.panicked
               /\ build' = IF remaining.overflow
                           THEN (IF checks THEN "debug" ELSE "release") ELSE build
        /\ UNCHANGED << containers, held_item, drag_state >>
        /\ UNCHANGED frame_vars

NextView ==
    \/ op_drag_preview
    \/ op_remaining_after_drag

(* the worlds of InitOps, and the worlds of an Active right drag with the  *)
(* slots it has visited                                                    *)
InitView ==
    /\ \E f1 \in OpFills[1], f2 \in OpFills[2], f3 \in OpFills[3], f4 \in OpFills[4] :
          containers = fill_slots(ContainerManager_default.containers, << f1, f2, f3, f4 >>, 1)
    /\ ui_mode = InventoryOpen
    /\ layouts = open_inventory(ContainerManager_default).layouts
    /\ available_chests = ContainerManager_default.available_chests
    /\ active_chest_id = ContainerManager_default.active_chest_id
    /\ held_item \in OpHeld
    /\ \/ drag_state = DragState_default
       \/ /\ IsSome(held_item)
          /\ \E visited \in VisitedLists :
                /\ Distinct(visited)
                /\ \/ \E pickup \in {None} \cup {Some(visited[i]) : i \in 1..Len(visited)} :
                         drag_state = [DragState_default EXCEPT !.is_left_dragging = TRUE,
                                                               !.left_drag_slots = visited,
                                                               !.pickup_slot = pickup]
                   \/ drag_state = [DragState_default EXCEPT
                                        !.is_right_dragging = TRUE,
                                        !.right_drag_slots = visited,
                                        !.right_last_hovered_slot =
                                            IF visited = << >> THEN None
                                            ELSE Some(visited[Len(visited)])]
    /\ ui_slots = {PlayerInventory, Hotbar}
    /\ rebuild_needed = FALSE
    /\ container_events = NoEvents
    /\ mouse_queue = [s \in MouseSystems |-> << >>]
    /\ input = IdleInput
    /\ pending = {}
    /\ frame = 0
    /\ panicked = FALSE
    /\ build = IF IsSome(held_item) /\ Unwrap(held_item).size = 0 THEN "release" ELSE "any"
    /\ last = NoOp
    /\ pickup_origin = None
    /\ right_gesture = << >>
    /\ visual_pending = {}
    /\ container_state = None
    /\ app_exit = FALSE

SpecView == InitView /\ [][NextView]_vars

----------------------------------------------------------------------------
(* The UI-mode transitions of the ContainerManager called one after the    *)
(* other on a manager as constructed, or as setup_game has filled it, with *)
(* or without a stack lifted onto the cursor.  last holds the transition   *)
(* applied last, the containers and the held item before it, and opened,   *)
(* the chest ids open_chest has been executed for so far.                  *)

MaxChestId == 5

ChestIds == 1..MaxChestId

(* the manager as the record of its fields *)
Manager ==
    [containers |-> containers, ui_mode |-> ui_mode, layouts |-> layouts,
     available_chests |-> available_chests, active_chest_id |-> active_chest_id]

InitManager ==
    /\ \/ /\ containers = ContainerManager_default.containers
          /\ held_item = None
       \/ /\ containers = setup_game(ContainerManager_default.containers)
          /\ held_item = None
       \/ LET cs == setup_game(ContainerManager_default.containers) IN
          /\ containers = [cs EXCEPT ![Hotbar] = take_slot(@, 0)]
          /\ held_item = get_slot(cs[Hotbar], 0)
    /\ ui_mode = ContainerManager_default.ui_mode
    /\ layouts = ContainerManager_default.layouts
    /\ available_chests = ContainerManager_default.available_chests
    /\ active_chest_id = ContainerManager_default.active_chest_id
    /\ drag_state = DragState_default
    /\ ui_slots = {Hotbar}
    /\ rebuild_needed = FALSE
    /\ container_events = NoEvents
    /\ mouse_queue = [s \in MouseSystems |-> << >>]
    /\ input = IdleInput
    /\ pending = {}
    /\ frame = 0
    /\ panicked = FALSE
    /\ build = "any"
    /\ last = [op |-> "default", id |-> 0, containers |-> containers, held |-> held_item,
               opened |-> {}]
    /\ pickup_origin = None
    /\ right_gesture = << >>
    /\ visual_pending = {}
    /\ container_state = None
    /\ app_exit = FALSE

(* the manager cm is what the transition op, called with the chest id, has *)
(* left behind; executed tells whether open_chest has been executed        *)
Transition(op, id, cm, executed) ==
    /\ containers' = cm.containers
    /\ ui_mode' = cm.ui_mode
    /\ layouts' = cm.layouts
    /\ available_chests' = cm.available_chests
    /\ active_chest_id' = cm.active_chest_id
    /\ last' = [op |-> op, id |-> id, containers |-> containers, held |-> held_item,
                opened |-> IF executed THEN last.opened \cup {id} ELSE last.opened]
    /\ UNCHANGED << held_item, drag_state, ui_slots, rebuild_needed, container_events,
                    mouse_queue, input, pending, frame, panicked, build, pickup_origin,
                    right_gesture, visual_pending,
           container_state, app_exit >>

mgr_open_inventory == Transition("open_inventory", 0, open_inventory(Manager), FALSE)

mgr_close_inventory == Transition("close_inventory", 0, close_inventory(Manager), FALSE)

mgr_open_chest ==
    \E id \in ChestIds : Transition("open_chest", id, open_chest(Manager, id), TRUE)

mgr_close_chest == Transition("close_chest", 0, close_chest(Manager), FALSE)

mgr_switch_chest ==
    \E id \in ChestIds :
        Transition("switch_chest", id, switch_chest(Manager, id),
                   Contains(available_chests, id))

NextManager ==
    \/ mgr_open_inventory
    \/ mgr_close_inventory
    \/ mgr_open_chest
    \/ mgr_close_chest
    \/ mgr_switch_chest

SpecManager == InitManager /\ [][NextManager]_vars

----------------------------------------------------------------------------
(* The accessors of SlotContainer called once on the hotbar (9 slots) or   *)
(* the player inventory (27 slots) of a bounded world, with indexes in and *)
(* out of range.  last holds the accessor, its arguments, the container    *)
(* before the call and the Option returned; panicked tells whether the     *)
(* call panicked instead of returning.                                     *)

MaxIndex == 28

SlotIndexes == 0..MaxIndex

AccessedContainers == {Hotbar, PlayerInventory}

SetStacks == {None, Some(ItemStack_new(BOW, 1)), Some(ItemStack_new(GLASS_BOTTLE, 16))}

InitSlots ==
    /\ \E f1 \in OpFills[1], f2 \in OpFills[2], f3 \in OpFills[3], f4 \in OpFills[4] :
          containers = fill_slots(ContainerManager_default.containers, << f1, f2, f3, f4 >>, 1)
    /\ ui_mode = InventoryOpen
    /\ layouts = open_inventory(ContainerManager_default).layouts
    /\ available_chests = ContainerManager_default.available_chests
    /\ active_chest_id = ContainerManager_default.active_chest_id
    /\ held_item = None
    /\ drag_state = DragState_default
    /\ ui_slots = {PlayerInventory, Hotbar}
    /\ rebuild_needed = FALSE
    /\ container_events = NoEvents
    /\ mouse_queue = [s \in MouseSystems |-> << >>]
    /\ input = IdleInput
    /\ pending = {}
    /\ frame = 0
    /\ panicked = FALSE
    /\ build = "any"
    /\ last = NoOp
    /\ pickup_origin = None
    /\ right_gesture = << >>
    /\ visual_pending = {}
    /\ container_state = None
    /\ app_exit = FALSE

(* the accessor op called on container k with index and stack has left the *)
(* container after behind and returned ret, or panicked                    *)
Accessed(op, k, index, stack, after, ret, panics) ==
    /\ last = NoOp
    /\ containers' = [containers EXCEPT ![k] = after]
    /\ panicked' = panics
    /\ last' = [op |-> op, container |-> k, index |-> index, stack |-> stack,
                before |-> containers[k], ret |-> ret]
    /\ UNCHANGED << held_item, drag_state, build, frame_vars >>

slot_get ==
    \E k \in AccessedContainers, index \in SlotIndexes :
        Accessed("get_slot", k, index, None, containers[k],
                 get_slot(containers[k], index), FALSE)

slot_get_mut ==
    \E k \in AccessedContainers, index \in SlotIndexes :
        Accessed("get_slot_mut", k, index, None, containers[k],
                 get_slot_mut(containers[k], index), FALSE)

slot_set ==
    \E k \in AccessedContainers, index \in SlotIndexes, stack \in SetStacks :
        Accessed("set_slot", k, index, stack, set_slot(containers[k], index, stack),
                 None, set_slot_panics(containers[k], index))

slot_take ==
    \E k \in AccessedContainers, index \in SlotIndexes :
        Accessed("take_slot", k, index, None, take_slot(containers[k], index),
                 get_slot(containers[k], index), FALSE)

NextSlots ==
    \/ slot_get
    \/ slot_get_mut
    \/ slot_set
    \/ slot_take

SpecSlots == InitSlots /\ [][NextSlots]_vars

----------------------------------------------------------------------------
(* ContainerState of the reference crate:                                  *)
(* src/inventory_reference_point/src/data/inventory/container/state.rs.    *)
(* A ContainerState is the record of its three fields; inventory is the    *)
(* vector of Option<String>, slot index i of the code being element i + 1. *)
(* A String that is looked into (the container name) is the sequence of    *)
(* its characters.  A Result is the record Ok or Err builds: index and     *)
(* item hold the Ok value, err the parts of the message.                   *)

MaxSlots == 3

Whitespace == {" ", "\t"}

(* str::trim: leading and trailing whitespace removed *)
RECURSIVE trim_start(_)
trim_start(str) ==
    IF str # << >> /\ Head(str) \in Whitespace THEN trim_start(Tail(str)) ELSE str

RECURSIVE trim_end(_)
trim_end(str) ==
    IF str # << >> /\ str[Len(str)] \in Whitespace
    THEN trim_end(SubSeq(str, 1, Len(str) - 1))
    ELSE str

trim(str) == trim_end(trim_start(str))

is_empty(str) == str = << >>

Ok(index, item) == [ok |-> TRUE, index |-> index, item |-> item, err |-> << >>]

Err(message) == [ok |-> FALSE, index |-> None, item |-> None, err |-> message]

ContainerState_new(name, slot_count) ==
    [container_name |-> name, slot_count |-> slot_count,
     inventory |-> [i \in 1..slot_count |-> None]]

(* the first empty slot gets the item when the loop reaches it *)
RECURSIVE add_item_from(_, _, _)
add_item_from(cs, item, index) ==
    IF index >= Len(cs.inventory)
    THEN [state |-> cs, ret |-> Err(<< "Container is full" >>)]
    ELSE IF cs.inventory[index + 1] = None
    THEN [state |-> [cs EXCEPT !.inventory[index + 1] = Some(item)],
          ret |-> Ok(Some(index), None)]
    ELSE add_item_from(cs, item, index + 1)

(* add_item that puts the item into the last empty slot *)
add_item_last_empty(cs, item) ==
    LET empty == {i \in 0..(Len(cs.inventory) - 1) : cs.inventory[i + 1] = None} IN
    IF empty = {} THEN [state |-> cs, ret |-> Err(<< "Container is full" >>)]
    ELSE LET index == CHOOSE i \in empty : \A j \in empty : j <= i IN
         [state |-> [cs EXCEPT !.inventory[index + 1] = Some(item)],
          ret |-> Ok(Some(index), None)]

add_item(cs, item) == add_item_from(cs, item, 0)

peek_slot(cs, slot_index) ==
    IF slot_index < Len(cs.inventory)
    THEN [ret |-> cs.inventory[slot_index + 1], panicked |-> FALSE]
    ELSE [ret |-> None, panicked |-> TRUE]

retrieve_slot_stack(cs, slot_index) ==
    IF slot_index < Len(cs.inventory)
    THEN [state |-> [cs EXCEPT !.inventory[slot_index + 1] = None],
          ret |-> cs.inventory[slot_index + 1], panicked |-> FALSE]
    ELSE [state |-> cs, ret |-> None, panicked |-> TRUE]

set_item(cs, slot_index, item) ==
    IF slot_index < Len(cs.inventory)
    THEN [state |-> [cs EXCEPT !.inventory[slot_index + 1] = item], panicked |-> FALSE]
    ELSE [state |-> cs, panicked |-> TRUE]

remove_item(cs, slot_index) ==
    IF slot_index < Len(cs.inventory)
    THEN set_item(cs, slot_index, None)
    ELSE [state |-> cs, panicked |-> TRUE]

empty_slots(cs) == Cardinality({i \in 1..Len(cs.inventory) : cs.inventory[i] = None})

(* occupied_slots that counts every slot *)
occupied_slots_counts_all(cs) == Cardinality({i \in 1..Len(cs.inventory) : TRUE})

occupied_slots(cs) == Cardinality({i \in 1..Len(cs.inventory) : cs.inventory[i] # None})

(* validate without the check of the slot count *)
validate_any_slot_count(cs) ==
    IF Len(cs.inventory) # cs.slot_count
    THEN Err(<< "Inventory size doesn't match slot_count" >>)
    ELSE IF is_empty(trim(cs.container_name))
    THEN Err(<< "Container name cannot be empty" >>)
    ELSE Ok(None, None)

validate(cs) ==
    IF Len(cs.inventory) # cs.slot_count
    THEN Err(<< "Inventory size doesn't match slot_count" >>)
    ELSE IF is_empty(trim(cs.container_name))
    THEN Err(<< "Container name cannot be empty" >>)
    ELSE IF cs.slot_count = 0
    THEN Err(<< "Container must have at least one slot" >>)
    ELSE Ok(None, None)

move_item(cs, from_slot, to_slot) ==
    LET peeked == peek_slot(cs, to_slot)
        has_space == peeked.ret = None
        retrieved == retrieve_slot_stack(cs, from_slot)
    IN  IF peeked.panicked \/ retrieved.panicked
        THEN [state |-> cs, ret |-> Err(<< >>), panicked |-> TRUE]
        ELSE IF retrieved.ret # None
        THEN IF has_space
             THEN LET placed == set_item(retrieved.state, to_slot, retrieved.ret) IN
                  [state |-> placed.state, ret |-> Ok(None, None),
                   panicked |-> placed.panicked]
             ELSE LET restored == set_item(retrieved.state, from_slot, retrieved.ret) IN
                  [state |-> restored.state,
                   ret |-> Err(<< "Destination slot is already occupied" >>),
                   panicked |-> restored.panicked]
        ELSE [state |-> retrieved.state,
              ret |-> Err(<< "Source slot is empty - no item to move" >>),
              panicked |-> FALSE]

(* from_rson_string on data that rson parses into the fields of parsed, or *)
(* fails to parse (parsed is None): the parsed container is validated      *)
from_rson_string(parsed) ==
    IF parsed = None THEN Err(<< "Failed to deserialize RSON data: " >>)
    ELSE LET checked == validate(Unwrap(parsed)) IN
         IF checked.ok THEN Ok(None, None)
         ELSE Err(<< "Loaded container failed validation: " >> \o checked.err)

(* The calls on one ContainerState, one after the other.  last holds the   *)
(* method called, its arguments, the container before the call and the     *)
(* value returned; panicked tells whether the call panicked instead.       *)

Names == { << >>, << " " >>, << "\t", " " >>, << "T" >>, << " ", "T", " " >> }

ItemNames == {"Sword", "Potion"}

SlotArgs == 0..MaxSlots

(* the containers rson can parse out of a string *)
ParsedStates ==
    { [container_name |-> name, slot_count |-> n, inventory |-> inv] :
        name \in Names, n \in 0..2,
        inv \in UNION { [1..m -> {None} \cup {Some(i) : i \in ItemNames}] : m \in 0..2 } }

InitState ==
    /\ containers = ContainerManager_default.containers
    /\ ui_mode = ContainerManager_default.ui_mode
    /\ layouts = ContainerManager_default.layouts
    /\ available_chests = ContainerManager_default.available_chests
    /\ active_chest_id = ContainerManager_default.active_chest_id
    /\ held_item = None
    /\ drag_state = DragState_default
    /\ ui_slots = {Hotbar}
    /\ rebuild_needed = FALSE
    /\ container_events = NoEvents
    /\ mouse_queue = [s \in MouseSystems |-> << >>]
    /\ input = IdleInput
    /\ pending = {}
    /\ frame = 0
    /\ panicked = FALSE
    /\ build = "any"
    /\ pickup_origin = None
    /\ right_gesture = << >>
    /\ visual_pending = {}
    /\ \E name \in Names, slot_count \in 0..MaxSlots :
          container_state = ContainerState_new(name, slot_count)
    /\ app_exit = FALSE
    /\ last = [op |-> "new", from |-> 0, to |-> 0, item |-> None, parsed |-> None,
               before |-> container_state, ret |-> Ok(None, None)]

(* the method op called with the given arguments has left the container    *)
(* after behind and returned ret, or panicked                              *)
Called(op, from, to, item, parsed, after, ret, panics) ==
    /\ ~panicked
    /\ container_state' = after
    /\ panicked' = panics
    /\ last' = [op |-> op, from |-> from, to |-> to, item |-> item, parsed |-> parsed,
                before |-> container_state, ret |-> ret]
    /\ UNCHANGED << manager_vars, held_item, drag_state, ui_slots, rebuild_needed,
                    container_events, mouse_queue, input, pending, frame, build,
                    pickup_origin, right_gesture, visual_pending, app_exit >>

cs_add_item ==
    \E item \in ItemNames :
        LET r == add_item(container_state, item) IN
        Called("add_item", 0, 0, Some(item), None, r.state, r.ret, FALSE)

cs_retrieve_slot_stack ==
    \E slot_index \in SlotArgs :
        LET r == retrieve_slot_stack(container_state, slot_index) IN
        Called("retrieve_slot_stack", slot_index, 0, None, None, r.state,
               Ok(None, r.ret), r.panicked)

cs_set_item ==
    \E slot_index \in SlotArgs, item \in {None} \cup {Some(i) : i \in ItemNames} :
        LET r == set_item(container_state, slot_index, item) IN
        Called("set_item", slot_index, 0, item, None, r.state, Ok(None, None), r.panicked)

cs_remove_item ==
    \E slot_index \in SlotArgs :
        LET r == remove_item(container_state, slot_index) IN
        Called("remove_item", slot_index, 0, None, None, r.state, Ok(None, None),
               r.panicked)

cs_move_item ==
    \E from_slot \in SlotArgs, to_slot \in SlotArgs :
        LET r == move_item(container_state, from_slot, to_slot) IN
        Called("move_item", from_slot, to_slot, None, None, r.state, r.ret, r.panicked)

cs_validate ==
    Called("validate", 0, 0, None, None, container_state, validate(container_state), FALSE)

(* the other constructor: before any method is called, the container is   *)
(* read from a string instead, and kept when the call is Ok                *)
cs_from_rson_string ==
    \E parsed \in {None} \cup {Some(p) : p \in ParsedStates} :
        LET r == from_rson_string(parsed) IN
        /\ last.op = "new"
        /\ Called("from_rson_string", 0, 0, None, parsed,
               IF r.ok THEN Unwrap(parsed) ELSE container_state, r, FALSE)

NextState ==
    \/ cs_add_item
    \/ cs_retrieve_slot_stack
    \/ cs_set_item
    \/ cs_remove_item
    \/ cs_move_item
    \/ cs_validate
    \/ cs_from_rson_string

SpecState == InitState /\ [][NextState]_vars

----------------------------------------------------------------------------
(* Every operation on the items applied once to a bounded world: the       *)
(* hotbar, the player inventory and chest 1 empty, full, or full but for a *)
(* few slots, in each UI mode, with or without a held stack and a drag     *)
(* under way.  last holds the operation, its slot and the world before.    *)

(* the slots of a container of slot_count slots, given as Options *)
SlotsOf(slot_count, content(_)) ==
    [slot_count |-> slot_count,
     slots |-> [i \in {j \in 0..(slot_count - 1) : content(j) # None} |->
                   Unwrap(content(i))]]

(* the contents drawn for a container *)
ShiftFills(slot_count) ==
    LET bows(i) == Some(ItemStack_new(BOW, 1))
        room(i) == CASE i = 1 -> Some(ItemStack_new(GLASS_BOTTLE, 15))
                     [] i = 2 -> Some(ItemStack_new(GLASS_BOTTLE, 14))
                     [] OTHER -> Some(ItemStack_new(BOW, 1))
        gap(i) == CASE i = 0 -> Some(ItemStack_new(GLASS_BOTTLE, 3))
                    [] i = 1 -> Some(ItemStack_new(GLASS_BOTTLE, 32))
                    [] i = 2 -> None
                    [] OTHER -> Some(ItemStack_new(BOW, 1))
        few(i) == CASE i = 0 -> Some(ItemStack_new(GLASS_BOTTLE, 16))
                    [] i = 1 -> Some(ItemStack_new(GLASS_BOTTLE, 5))
                    [] OTHER -> None
    IN  << SlotContainer_new(slot_count), SlotsOf(slot_count, bows),
           SlotsOf(slot_count, room), SlotsOf(slot_count, gap), SlotsOf(slot_count, few) >>

(* the managers the worlds are drawn from: one for each UI mode *)
ShiftManagers ==
    {ContainerManager_default, open_inventory(ContainerManager_default),
     open_chest(ContainerManager_default, 1), open_chest(ContainerManager_default, 2)}

ShiftHeld == {None, Some(ItemStack_new(GLASS_BOTTLE, 3)), Some(ItemStack_new(BOW, 1))}

(* the drags under way with a held stack *)
ShiftDrags ==
    {DragState_default,
     [DragState_default EXCEPT !.is_right_dragging = TRUE]}
    \cup {[DragState_default EXCEPT !.is_left_dragging = TRUE, !.left_drag_slots = visited] :
            visited \in {<< >>, << OpSlots[2] >>, << OpSlots[3] >>,
                         << OpSlots[2], OpSlots[3] >>, << OpSlots[3], OpSlots[2] >>}}

(* the slots a shift-click is made on *)
ShiftSources == {Hotbar, PlayerInventory, Chest(1), Chest(2)}

ShiftIndexes == {0, 1, 2}

(* the chests opened or switched to *)
ShiftChestIds == {2, 4}

InitShift ==
    /\ \E cm \in ShiftManagers, h \in 1..5, p \in 1..5, c \in 1..3 :
          /\ containers = [cm.containers EXCEPT
                              ![Hotbar] = ShiftFills(9)[h],
                              ![PlayerInventory] = ShiftFills(27)[p],
                              ![Chest(1)] = ShiftFills(27)[c]]
          /\ ui_mode = cm.ui_mode
          /\ layouts = cm.layouts
          /\ available_chests = cm.available_chests
          /\ active_chest_id = cm.active_chest_id
    /\ held_item \in ShiftHeld
    /\ IF held_item = None THEN drag_state = DragState_default
       ELSE drag_state \in ShiftDrags
    /\ ui_slots = {PlayerInventory, Hotbar}
    /\ rebuild_needed = FALSE
    /\ container_events = NoEvents
    /\ mouse_queue = [s \in MouseSystems |-> << >>]
    /\ input = IdleInput
    /\ pending = {}
    /\ frame = 0
    /\ panicked = FALSE
    /\ build = "any"
    /\ last = NoOp
    /\ pickup_origin = None
    /\ right_gesture = << >>
    /\ visual_pending = {}
    /\ container_state = None
    /\ app_exit = FALSE

(* process_shift_click on a slot; it has no arithmetic that depends on the *)
(* overflow checks of the build                                            *)
ShiftClicked(ref, r) ==
    Applied("shift_click", Some(ref), FALSE,
            World(r.containers, held_item, drag_state, r.panicked, FALSE))

op_shift_click ==
    \E source \in ShiftSources, slot_index \in ShiftIndexes :
        ShiftClicked(SlotRef(source, slot_index),
                     process_shift_click(slot_index, source, containers, ui_mode))

(* a frame of a right drag with the cursor over a slot: no event for       *)
(* handle_right_drag_deposit                                               *)
op_right_drag_deposit ==
    \E k \in 1..Len(OpSlots), checks \in ChecksOf(build) :
        /\ drag_state.is_right_dragging
        /\ Applied("right_drag_deposit", Some(OpSlots[k]), checks,
                   sys_right_drag_deposit(Here, << >>, Some(OpSlots[k]), checks))

(* a UI-mode transition of the manager has left cm behind *)
Switched(op, cm) ==
    /\ last = NoOp
    /\ containers' = cm.containers
    /\ ui_mode' = cm.ui_mode
    /\ layouts' = cm.layouts
    /\ available_chests' = cm.available_chests
    /\ active_chest_id' = cm.active_chest_id
    /\ last' = [op |-> op, ref |-> None, checks |-> FALSE, containers |-> containers,
                held |-> held_item, drag |-> drag_state]
    /\ UNCHANGED << held_item, drag_state, ui_slots, rebuild_needed, container_events,
                    mouse_queue, input, pending, frame, panicked, build, pickup_origin,
                    right_gesture, visual_pending, container_state, app_exit >>

op_open_inventory == Switched("open_inventory", open_inventory(Manager))

op_close_inventory == Switched("close_inventory", close_inventory(Manager))

op_open_chest == \E id \in ShiftChestIds : Switched("open_chest", open_chest(Manager, id))

op_close_chest == Switched("close_chest", close_chest(Manager))

op_switch_chest ==
    \E id \in ShiftChestIds : Switched("switch_chest", switch_chest(Manager, id))

NextShift ==
    \/ op_shift_click
    \/ op_left_click
    \/ op_right_click
    \/ op_right_drag_deposit
    \/ op_drag_end
    \/ op_open_inventory
    \/ op_close_inventory
    \/ op_open_chest
    \/ op_close_chest
    \/ op_switch_chest

SpecShift == InitShift /\ [][NextShift]_vars

----------------------------------------------------------------------------
(* Properties of the single operations; last holds the operation and the   *)
(* world it was applied to                                                 *)

(* the slot the operation was applied to, and its content before *)
OpRef == Unwrap(last.ref)

OpSlotBefore == SlotAt(last.containers, OpRef)

(* the containers before the operation with one slot replaced *)
WithSlot(ref, stack) == [last.containers EXCEPT ![ref[1]] = Store(@, ref[2], stack)]

(* C6: for mergeable stacks A (count a) and B (count b <= c, c the max of  *)
(* the kind), A.try_merge(B) leaves B with min(a+b, c) units and A with    *)
(* a+b - min(a+b, c) units.                                                *)
C6_TryMergeConserves ==
    last.op = "try_merge" =>
        LET A == Unwrap(last.held)
            B == Unwrap(OpSlotBefore)
            c == MaxOf(B)
            m == Min(A.size + B.size, c)
        IN  (can_merge_with(A, B) /\ B.size <= c) =>
              /\ ~panicked
              /\ SlotAt(containers, OpRef) = Some([B EXCEPT !.size = m])
              /\ held_item = Some([A EXCEPT !.size = A.size + B.size - m])

(* a merge that fills the receiver and leaves units behind *)
C6_Witness ==
    /\ last.op = "try_merge"
    /\ can_merge_with(Unwrap(last.held), Unwrap(OpSlotBefore))
    /\ Unwrap(OpSlotBefore).size < MaxOf(Unwrap(OpSlotBefore))
    /\ Unwrap(last.held).size + Unwrap(OpSlotBefore).size > MaxOf(Unwrap(OpSlotBefore))
    /\ Unwrap(SlotAt(containers, OpRef)).size = MaxOf(Unwrap(OpSlotBefore))
    /\ Unwrap(held_item).size > 0

(* C8: a left click with a held stack on a slot holding a stack it cannot  *)
(* merge with exchanges the two stacks and changes no other slot.          *)
C8_LeftClickSwaps ==
    (last.op = "left_click" /\ IsSome(last.held) /\ IsSome(OpSlotBefore)) =>
        LET H == Unwrap(last.held)
            S == Unwrap(OpSlotBefore)
        IN  ~can_merge_with(H, S) =>
              /\ ~panicked
              /\ containers = WithSlot(OpRef, Some(H))
              /\ held_item = Some(S)

(* a swap of stacks of two kinds has happened *)
C8_Witness ==
    /\ last.op = "left_click" /\ IsSome(last.held) /\ IsSome(OpSlotBefore)
    /\ Unwrap(last.held).item # Unwrap(OpSlotBefore).item
    /\ held_item = OpSlotBefore
    /\ SlotAt(containers, OpRef) = last.held

(* C9: a right click with an empty cursor on a slot of n units gives the   *)
(* cursor floor(n/2) units and leaves n - floor(n/2) when n > 1, and gives *)
(* the cursor the single unit and empties the slot when n = 1.             *)
C9_RightClickSplits ==
    (last.op = "right_click" /\ last.held = None /\ IsSome(OpSlotBefore)) =>
        LET S == Unwrap(OpSlotBefore)
            n == S.size
        IN  /\ ~panicked
            /\ n > 1 => /\ held_item = Some([S EXCEPT !.size = n \div 2])
                        /\ containers = WithSlot(OpRef, Some([S EXCEPT !.size = n - n \div 2]))
            /\ n = 1 => /\ held_item = Some(S)
                        /\ containers = WithSlot(OpRef, None)

(* an odd stack has been split *)
C9_Witness ==
    /\ last.op = "right_click" /\ last.held = None /\ IsSome(OpSlotBefore)
    /\ Unwrap(OpSlotBefore).size = 15
    /\ Unwrap(held_item).size = 7
    /\ Unwrap(SlotAt(containers, OpRef)).size = 8

(* C10: a right click with a held stack on an occupied slot moves exactly  *)
(* one unit from the cursor to the slot if and only if the slot's stack is *)
(* mergeable with the held stack and below its max (the cursor becoming    *)
(* empty at count 0); otherwise neither the slot nor the held stack        *)
(* changes.                                                                *)
C10_RightClickOneUnit ==
    (last.op = "right_click" /\ IsSome(last.held) /\ IsSome(OpSlotBefore)) =>
        LET H == Unwrap(last.held)
            S == Unwrap(OpSlotBefore)
        IN  /\ ~panicked
            /\ IF can_merge_with(H, S) /\ S.size < MaxOf(S)
               THEN /\ containers = WithSlot(OpRef, Some([S EXCEPT !.size = S.size + 1]))
                    /\ held_item = IF H.size - 1 = 0 THEN None
                                   ELSE Some([H EXCEPT !.size = H.size - 1])
               ELSE /\ containers = last.containers
                    /\ held_item = last.held

(* C11: a right click with a held stack of h units on an empty slot puts   *)
(* one unit of the held kind into the slot and leaves h-1 on the cursor    *)
(* when h > 1, and puts the whole held stack into the slot and empties the *)
(* cursor when h = 1; no other slot changes.                               *)
C11_RightClickEmptySlot ==
    (/\ last.op = "right_click" /\ IsSome(last.held) /\ OpSlotBefore = None
     /\ Unwrap(last.held).size >= 1) =>
        LET H == Unwrap(last.held)
            h == H.size
        IN  /\ ~panicked
            /\ h > 1 => /\ containers = WithSlot(OpRef, Some(ItemStack_new(Unwrap(H.item), 1)))
                        /\ held_item = Some([H EXCEPT !.size = h - 1])
            /\ h = 1 => /\ containers = WithSlot(OpRef, Some(H))
                        /\ held_item = None

(* one unit of several has been put into an empty slot *)
C11_Witness ==
    /\ last.op = "right_click" /\ IsSome(last.held) /\ OpSlotBefore = None
    /\ Unwrap(last.held).size = 5
    /\ Unwrap(SlotAt(containers, OpRef)).size = 1
    /\ Unwrap(held_item).size = 4

(* the stack split_half was called on, before and after the call *)
SplitBefore == Unwrap(IF last.ref = None THEN last.held ELSE SlotAt(last.containers, Unwrap(last.ref)))

SplitAfter == Unwrap(IF last.ref = None THEN held_item ELSE SlotAt(containers, Unwrap(last.ref)))

(* C12: for a stack of n units, split_half returns a stack of the same     *)
(* kind with floor(n/2) units and leaves ceil(n/2) when n > 1, and returns *)
(* nothing and leaves the count unchanged when n <= 1.                     *)
C12_SplitHalf ==
    last.op = "split_half" =>
        LET n == SplitBefore.size IN
        IF n > 1
        THEN /\ last.ret = Some([item |-> SplitBefore.item, size |-> n \div 2])
             /\ SplitAfter = [SplitBefore EXCEPT !.size = (n + 1) \div 2]
             /\ Unwrap(last.ret).size + SplitAfter.size = n
        ELSE /\ last.ret = None
             /\ SplitAfter = SplitBefore

(* an odd stack has been split by split_half itself *)
C12_Witness ==
    /\ last.op = "split_half"
    /\ SplitBefore.size = 9
    /\ Unwrap(last.ret).size = 4
    /\ SplitAfter.size = 5

(* the release of a left drag that visited exactly one slot, with a held stack *)
SingleSlotRelease ==
    /\ last.op = "drag_end" /\ IsSome(last.held)
    /\ Len(last.drag.left_drag_slots) = 1

(* C13: releasing a left drag that visited exactly one slot, with a held   *)
(* stack, leaves the containers and the held item exactly as               *)
(* process_left_click on that slot leaves them, also when the slot is the  *)
(* recorded pickup slot.                                                   *)
C13_SingleSlotDragIsLeftClick ==
    SingleSlotRelease =>
        LET ref == last.drag.left_drag_slots[1]
            click == process_left_click(ref[2], last.containers[ref[1]], last.held, last.checks)
        IN  /\ containers = [last.containers EXCEPT ![ref[1]] = click.inventory]
            /\ held_item = click.held
            /\ panicked = click.panicked

(* a drag over the pickup slot alone has swapped the held stack with the   *)
(* stack of that slot                                                      *)
C13_Witness ==
    /\ SingleSlotRelease
    /\ last.drag.pickup_slot = Some(last.drag.left_drag_slots[1])
    /\ ~panicked
    /\ IsSome(held_item) /\ IsSome(SlotAt(last.containers, last.drag.left_drag_slots[1]))
    /\ Unwrap(held_item).item # Unwrap(last.held).item
    /\ SlotAt(containers, last.drag.left_drag_slots[1]) = last.held

(* C14: when a left drag is released with an empty visited-slot list, every *)
(* container slot and the held stack are exactly as they were before the   *)
(* release.                                                                *)
C14_EmptyDragChangesNothing ==
    (last.op = "drag_end" /\ last.drag.left_drag_slots = << >>) =>
        /\ containers = last.containers
        /\ held_item = last.held
        /\ ~panicked

(* a drag that visited no slot has been released with a stack on the cursor *)
C14_Witness ==
    /\ last.op = "drag_end" /\ last.drag.left_drag_slots = << >>
    /\ last.drag.is_left_dragging /\ ~drag_state.is_left_dragging
    /\ IsSome(held_item) /\ Unwrap(held_item).size = 5

(* the units in a slot, before and after the operation *)
Count(stack) == IF stack = None THEN 0 ELSE Unwrap(stack).size

Added(ref) == Count(SlotAt(containers, ref)) - Count(SlotAt(last.containers, ref))

RECURSIVE SumOver(_, _)
SumOver(F(_), seq) == IF seq = << >> THEN 0 ELSE F(Head(seq)) + SumOver(F, Tail(seq))

(* a multi-slot release of a left drag with a held stack *)
MultiSlotRelease ==
    /\ last.op = "drag_end" /\ IsSome(last.held)
    /\ Len(last.drag.left_drag_slots) >= 2

(* the visited slots that were empty, or mergeable with the held stack and *)
(* below max, in hover order                                               *)
ValidVisited ==
    SelectSeq(last.drag.left_drag_slots,
              LAMBDA ref : LET slot == SlotAt(last.containers, ref) IN
                           IF slot = None THEN TRUE
                           ELSE /\ can_merge_with(Unwrap(last.held), Unwrap(slot))
                                /\ Unwrap(slot).size < MaxOf(Unwrap(slot)))

(* the remaining valid targets: the valid visited slots, without the       *)
(* recorded pickup slot when another one is valid                          *)
Targets ==
    LET valid == ValidVisited
        others == SelectSeq(valid, LAMBDA ref : Some(ref) # last.drag.pickup_slot)
    IN  IF others = << >> THEN valid ELSE others

(* the allotment of the i-th target (1-based) of N for a held count T *)
Allotment(i, T, N) == (T \div N) + (IF i <= T % N THEN 1 ELSE 0)

(* C3: after a multi-slot left-drag release with held count T and at least *)
(* one valid target the held count is T minus the units added to the       *)
(* slots, the cursor being empty exactly when nothing is left; no target   *)
(* receives more than its own allotment, so units that did not fit stay on *)
(* the cursor; without a valid target nothing moves.                       *)
C3_ShortfallStaysHeld ==
    MultiSlotRelease =>
        LET H == Unwrap(last.held)
            T == H.size
            targets == Targets
            N == Len(targets)
            placed == SumOver(Added, last.drag.left_drag_slots)
        IN  /\ ~panicked
            /\ Count(held_item) = T - placed
            /\ IF N = 0 THEN held_item = last.held
               ELSE held_item = IF T - placed = 0 THEN None
                                ELSE Some([H EXCEPT !.size = T - placed])
            /\ \A i \in 1..N : Added(targets[i]) >= 0 /\ Added(targets[i]) <= Allotment(i, T, N)
            /\ \A k \in DOMAIN containers :
                  \A x \in (DOMAIN containers[k].slots) \cup (DOMAIN last.containers[k].slots) :
                      ~Contains(targets, SlotRef(k, x)) =>
                          get_slot(containers[k], x) = get_slot(last.containers[k], x)

(* a release in which a target filled up and the shortfall stayed held *)
C3_Witness ==
    /\ MultiSlotRelease
    /\ LET targets == Targets IN
       \E i \in 1..Len(targets) :
          /\ Added(targets[i]) > 0
          /\ Added(targets[i]) < Allotment(i, Unwrap(last.held).size, Len(targets))
    /\ IsSome(held_item)
    /\ Unwrap(held_item).size
          = Unwrap(last.held).size - SumOver(Added, last.drag.left_drag_slots)

(* C4: for a held count T >= 1 and N >= 1 valid targets, every target is   *)
(* allotted T div N units and the first T mod N targets in hover order one *)
(* unit more: an empty target ends with exactly its allotment; the         *)
(* allotments sum to T and differ by at most 1.                            *)
C4_EvenAllotment ==
    MultiSlotRelease =>
        LET T == Unwrap(last.held).size
            targets == Targets
            N == Len(targets)
            allotted == [i \in 1..N |-> Allotment(i, T, N)]
            at(i) == allotted[i]
        IN  (T >= 1 /\ N >= 1) =>
              /\ \A i \in 1..N :
                    SlotAt(last.containers, targets[i]) = None =>
                        Count(SlotAt(containers, targets[i])) = allotted[i]
              /\ \A i \in 1..N :
                    IsSome(SlotAt(containers, targets[i])) =>
                        Unwrap(SlotAt(containers, targets[i])).item = Unwrap(last.held).item
              /\ \A i \in 1..N :
                    allotted[i] = (T \div N) + (IF i <= T % N THEN 1 ELSE 0)
              /\ SumOver(at, [i \in 1..N |-> i]) = T
              /\ \A i, j \in 1..N : allotted[i] - allotted[j] <= 1

(* nine units over four empty targets: 3, 2, 2, 2 in hover order *)
C4_Witness ==
    /\ MultiSlotRelease
    /\ Unwrap(last.held).size = 9
    /\ LET targets == Targets IN
       /\ Len(targets) = 4
       /\ \A i \in 1..4 : SlotAt(last.containers, targets[i]) = None
       /\ Count(SlotAt(containers, targets[1])) = 3
       /\ \A i \in 2..4 : Count(SlotAt(containers, targets[i])) = 2
    /\ held_item = None

----------------------------------------------------------------------------
(* Properties of the frame loop *)

(* the step runs system s *)
Ran(s) == s \in pending /\ s \notin pending'

(* the step is one plain click of the given system on an occupied slot     *)
(* with a stack on the cursor                                              *)
ClickOnStack(s, released, dragging, was_dragging) ==
    /\ Ran(s) /\ input.cursor.window
    /\ mouse_queue[s] = << released >>
    /\ ~dragging /\ ~was_dragging
    /\ IsSome(held_item)
    /\ IsSome(find_slot_under_cursor(input.cursor, ui_slots))
    /\ IsSome(SlotAt(containers, Unwrap(find_slot_under_cursor(input.cursor, ui_slots))))

----------------------------------------------------------------------------
(* C1: from the setup_game state, no sequence of in-range press, release,  *)
(* hover and mode-change events ever reaches a panic.                      *)
C1_NoPanic == ~panicked

(* C2: every stack in a container slot and the held stack have a count of  *)
(* at most the max_stack_size of their item kind.                          *)
C2_WithinMax ==
    /\ \A k \in DOMAIN containers : \A i \in DOMAIN containers[k].slots :
          containers[k].slots[i].size <= MaxOf(containers[k].slots[i])
    /\ IsSome(held_item) => Unwrap(held_item).size <= MaxOf(Unwrap(held_item))

(* the first event of the left button in a queue of button events *)
FirstLeft(queue) ==
    IF \E i \in 1..Len(queue) : queue[i].button = "Left"
    THEN Some(queue[CHOOSE i \in 1..Len(queue) :
                       /\ queue[i].button = "Left"
                       /\ \A j \in 1..(i - 1) : queue[j].button # "Left"])
    ELSE None

(* C5: on a multi-slot left-drag release the slot the held stack was       *)
(* lifted from receives items if and only if it is a valid target and no   *)
(* other visited slot is a valid target.                                   *)
C5_PickupSlotExcluded ==
    [][ IF /\ Ran("handle_left_drag_deposit") /\ input.cursor.window
           /\ drag_state.is_left_dragging /\ Len(drag_state.left_drag_slots) >= 2
           /\ IsSome(held_item) /\ IsSome(pickup_origin)
           /\ FirstLeft(mouse_queue["handle_left_drag_deposit"]) = Some(LeftReleased)
        THEN LET P == Unwrap(pickup_origin)
                 H == Unwrap(held_item)
                 valid == filter_valid_distribution_slots(drag_state.left_drag_slots, H,
                                                          containers)
                 others == \E i \in 1..Len(valid) : valid[i] # P
                 receives == SlotAt(containers', P) # SlotAt(containers, P)
             IN  H.size >= 1 => (receives <=> (Contains(valid, P) /\ ~others))
        ELSE TRUE ]_vars

(* C7: a left click with h held units on a slot with s units of the same   *)
(* mergeable kind (max c) leaves min(h+s, c) in the slot and               *)
(* h+s - min(h+s, c) on the cursor, which is empty exactly when h+s <= c.  *)
C7_LeftClickMerges ==
    [][ IF ClickOnStack("handle_left_clicks_updated", LeftReleased,
                        drag_state.is_left_dragging,
                        drag_state.was_left_dragging_this_frame)
        THEN LET ref == Unwrap(find_slot_under_cursor(input.cursor, ui_slots))
                 H == Unwrap(held_item)
                 S == Unwrap(SlotAt(containers, ref))
                 c == MaxOf(S)
                 m == Min(H.size + S.size, c)
             IN  can_merge_with(H, S) =>
                   /\ ~panicked'
                   /\ SlotAt(containers', ref) = Some([S EXCEPT !.size = m])
                   /\ held_item' = IF H.size + S.size <= c THEN None
                                   ELSE Some([H EXCEPT !.size = H.size + S.size - m])
        ELSE TRUE ]_vars

(* C15: a left or right drag becomes Active only in a step of its drag     *)
(* system that reads a press of its button with a stack on the cursor; a   *)
(* press with an empty cursor leaves an Idle gesture Idle and its visited  *)
(* list (last hovered slot) untouched; a slot is recorded (left) or        *)
(* deposited into (right) only while the gesture is Active and the held    *)
(* item is non-empty.                                                      *)
C15_ActiveOnlyWithHeld ==
    [][ /\ IF ~drag_state.is_left_dragging /\ drag_state'.is_left_dragging
           THEN /\ Ran("handle_left_drag_deposit")
                /\ Contains(mouse_queue["handle_left_drag_deposit"], LeftPressed)
                /\ IsSome(held_item')
           ELSE TRUE
        /\ IF ~drag_state.is_right_dragging /\ drag_state'.is_right_dragging
           THEN /\ Ran("handle_right_drag_deposit")
                /\ Contains(mouse_queue["handle_right_drag_deposit"], RightPressed)
                /\ IsSome(held_item)
           ELSE TRUE
        /\ IF held_item = None /\ ~drag_state.is_left_dragging
           THEN /\ ~drag_state'.is_left_dragging
                /\ drag_state'.left_drag_slots = drag_state.left_drag_slots
           ELSE TRUE
        /\ IF held_item = None /\ ~drag_state.is_right_dragging
           THEN /\ ~drag_state'.is_right_dragging
                /\ drag_state'.right_last_hovered_slot = drag_state.right_last_hovered_slot
           ELSE TRUE
        /\ IF /\ drag_state'.left_drag_slots # drag_state.left_drag_slots
              /\ drag_state'.left_drag_slots # << >>
           THEN /\ Ran("handle_left_drag_deposit")
                /\ drag_state'.is_left_dragging /\ IsSome(held_item')
           ELSE TRUE
        /\ IF /\ Ran("handle_right_drag_deposit")
              /\ (containers' # containers \/ held_item' # held_item)
           THEN drag_state'.is_right_dragging /\ IsSome(held_item)
           ELSE TRUE ]_vars

(* both gestures are Active with a stack on the cursor, a slot recorded by *)
(* the left drag and a slot deposited into by the right drag               *)
C15_Witness ==
    /\ drag_state.is_left_dragging /\ drag_state.left_drag_slots # << >>
    /\ drag_state.is_right_dragging /\ IsSome(drag_state.right_last_hovered_slot)
    /\ IsSome(held_item)

(* the last event of the given button in a queue of button events *)
LastOf(queue, button) ==
    IF \E i \in 1..Len(queue) : queue[i].button = button
    THEN Some(queue[CHOOSE i \in 1..Len(queue) :
                       /\ queue[i].button = button
                       /\ \A j \in (i + 1)..Len(queue) : queue[j].button # button])
    ELSE None

(* C16: once a drag system has processed a release of its button (and no   *)
(* later press), the gesture is Idle and its visited-slot list (left) or   *)
(* last hovered slot (right) is empty, whether or not the gesture was      *)
(* Active and a stack is still held; and in every state reached the list   *)
(* is empty whenever the gesture is Idle.                                  *)
C16_ReleaseClearsGesture ==
    [][ /\ IF /\ Ran("handle_left_drag_deposit") /\ input.cursor.window
              /\ LastOf(mouse_queue["handle_left_drag_deposit"], "Left") = Some(LeftReleased)
           THEN ~drag_state'.is_left_dragging /\ drag_state'.left_drag_slots = << >>
           ELSE TRUE
        /\ IF /\ Ran("handle_right_drag_deposit") /\ input.cursor.window
              /\ LastOf(mouse_queue["handle_right_drag_deposit"], "Right") = Some(RightReleased)
           THEN ~drag_state'.is_right_dragging /\ drag_state'.right_last_hovered_slot = None
           ELSE TRUE
        /\ ~drag_state'.is_left_dragging => drag_state'.left_drag_slots = << >>
        /\ ~drag_state'.is_right_dragging => drag_state'.right_last_hovered_slot = None ]_vars

(* the release of an Active left drag that had recorded a slot has been    *)
(* processed and a stack is still on the cursor                            *)
C16_Witness ==
    /\ drag_state.was_left_dragging_this_frame
    /\ ~drag_state.is_left_dragging /\ drag_state.left_drag_slots = << >>
    /\ IsSome(held_item)
    /\ "handle_left_drag_deposit" \notin pending
    /\ input.mouse_events = << LeftReleased >> /\ IsSome(input.cursor.over)

(* a queue of button events holds a release of the given button that ends *)
(* an Active gesture: active is the gesture's flag and held_some whether a *)
(* stack is on the cursor when the first event is read                     *)
RECURSIVE EndsActive(_, _, _, _)
EndsActive(events, button, active, held_some) ==
    IF events = << >> THEN FALSE
    ELSE IF Head(events).button # button
    THEN EndsActive(Tail(events), button, active, held_some)
    ELSE IF Head(events).state = "Pressed"
    THEN EndsActive(Tail(events), button, active \/ held_some, held_some)
    ELSE IF active THEN TRUE
    ELSE EndsActive(Tail(events), button, FALSE, held_some)

(* C17: the was-dragging-this-frame flag of a gesture is true at the end   *)
(* of a frame if and only if the drag system of that button processed in   *)
(* that frame a release that ended an Active gesture, also in a frame in   *)
(* which the cursor is outside the window; no other step changes the flag, *)
(* so it is false again at the end of the next frame.                      *)
C17_FlagOneFrame ==
    [][ /\ IF Ran("handle_left_drag_deposit")
           THEN drag_state'.was_left_dragging_this_frame
                    <=> /\ input.cursor.window
                        /\ EndsActive(mouse_queue["handle_left_drag_deposit"], "Left",
                                      drag_state.is_left_dragging, IsSome(held_item))
           ELSE drag_state'.was_left_dragging_this_frame
                    = drag_state.was_left_dragging_this_frame
        /\ IF Ran("handle_right_drag_deposit")
           THEN drag_state'.was_right_dragging_this_frame
                    <=> /\ input.cursor.window
                        /\ EndsActive(mouse_queue["handle_right_drag_deposit"], "Right",
                                      drag_state.is_right_dragging, IsSome(held_item))
           ELSE drag_state'.was_right_dragging_this_frame
                    = drag_state.was_right_dragging_this_frame ]_vars

(* the containers and the held item after two mouse systems have run one   *)
(* after the other from the world w; the second does not run when the      *)
(* first has panicked                                                      *)
Resulting(w) == [containers |-> w.containers, held |-> w.held, panicked |-> w.panicked]

(* handle_left_clicks_updated, then handle_left_drag_deposit *)
LeftClickThenDrag(checks) ==
    LET slot == find_slot_under_cursor(input.cursor, ui_slots)
        w1 == sys_left_clicks(Here, mouse_queue["handle_left_clicks_updated"], slot, checks)
    IN  IF w1.panicked THEN w1
        ELSE sys_left_drag_deposit(w1, mouse_queue["handle_left_drag_deposit"], slot, checks)

(* handle_left_drag_deposit, then handle_left_clicks_updated *)
LeftDragThenClick(checks) ==
    LET slot == find_slot_under_cursor(input.cursor, ui_slots)
        w1 == sys_left_drag_deposit(Here, mouse_queue["handle_left_drag_deposit"], slot, checks)
    IN  IF w1.panicked THEN w1
        ELSE sys_left_clicks(w1, mouse_queue["handle_left_clicks_updated"], slot, checks)

(* handle_right_clicks_updated, then handle_right_drag_deposit *)
RightClickThenDrag(checks) ==
    LET slot == find_slot_under_cursor(input.cursor, ui_slots)
        w1 == sys_right_clicks(Here, mouse_queue["handle_right_clicks_updated"], slot, checks)
    IN  IF w1.panicked THEN w1
        ELSE sys_right_drag_deposit(w1, mouse_queue["handle_right_drag_deposit"], slot, checks)

(* handle_right_drag_deposit, then handle_right_clicks_updated *)
RightDragThenClick(checks) ==
    LET slot == find_slot_under_cursor(input.cursor, ui_slots)
        w1 == sys_right_drag_deposit(Here, mouse_queue["handle_right_drag_deposit"], slot, checks)
    IN  IF w1.panicked THEN w1
        ELSE sys_right_clicks(w1, mouse_queue["handle_right_clicks_updated"], slot, checks)

(* C18: in every state of a frame in which the single-click system and the *)
(* drag system of a button have both still to run and the cursor is in the *)
(* window, running the click system first and running the drag system      *)
(* first leave the same containers and the same held item, whatever mouse  *)
(* events the frame delivered (a press and a release of the button in the  *)
(* same frame included).                                                   *)
C18_OrderIndependent ==
    (/\ ~panicked /\ input.cursor.window
     /\ "handle_chest_button_clicks" \notin pending)
    => /\ {"handle_left_clicks_updated", "handle_left_drag_deposit"} \subseteq pending
            => \A checks \in ChecksOf(build) :
                   Resulting(LeftClickThenDrag(checks)) = Resulting(LeftDragThenClick(checks))
       /\ {"handle_right_clicks_updated", "handle_right_drag_deposit"} \subseteq pending
            => \A checks \in ChecksOf(build) :
                   Resulting(RightClickThenDrag(checks)) = Resulting(RightDragThenClick(checks))

(* the units moved in the frames i..j of the current right-drag gesture *)
RECURSIVE MovedIn(_, _)
MovedIn(i, j) == IF i > j THEN 0 ELSE right_gesture[i].moved + MovedIn(i + 1, j)

(* the frames i..j of the current right-drag gesture are a run on one slot *)
SameSlotRun(i, j) ==
    /\ IsSome(right_gesture[i].over)
    /\ \A k \in i..j : right_gesture[k].over = right_gesture[i].over

(* C19: in every frame of an Active right drag in which units leave the    *)
(* cursor, exactly one unit leaves it and the slot under the cursor is a   *)
(* slot other than the last hovered slot; and over every run of            *)
(* consecutive frames of the drag with the cursor on the same slot, at     *)
(* most one unit is moved.                                                 *)
C19_DepositOnSlotChange ==
    /\ \A i \in DOMAIN right_gesture :
           right_gesture[i].moved # 0
               => /\ right_gesture[i].moved = 1
                  /\ IsSome(right_gesture[i].over)
                  /\ right_gesture[i].over # right_gesture[i].hovered
    /\ \A i \in DOMAIN right_gesture : \A j \in DOMAIN right_gesture :
           (i < j /\ SameSlotRun(i, j)) => MovedIn(i, j) <= 1

(* the cursor has stayed for a second frame on the slot that received a    *)
(* unit in the frame before, with a stack still on the cursor              *)
C19_Witness ==
    /\ Len(right_gesture) >= 2
    /\ "handle_right_drag_deposit" \notin pending
    /\ drag_state.is_right_dragging /\ IsSome(held_item)
    /\ LET n == Len(right_gesture)
       IN  /\ SameSlotRun(n - 1, n)
           /\ right_gesture[n - 1].moved = 1
           /\ right_gesture[n].moved = 0

(* the units the slot has received in the frames i.. of the current        *)
(* right-drag gesture                                                      *)
RECURSIVE ReceivedFrom(_, _)
ReceivedFrom(slot, i) ==
    IF i > Len(right_gesture) THEN 0
    ELSE (IF right_gesture[i].over = slot THEN right_gesture[i].moved ELSE 0)
         + ReceivedFrom(slot, i + 1)

(* C20: within one right-drag gesture, from its press on, no slot has      *)
(* received more than one unit from the held stack, whatever path the      *)
(* cursor took over the slots.                                             *)
C20_OneUnitPerSlot ==
    \A i \in DOMAIN right_gesture :
        IsSome(right_gesture[i].over) => ReceivedFrom(right_gesture[i].over, 1) <= 1

----------------------------------------------------------------------------
(* Properties of the preview functions                                     *)

(* the units of the held kind a slot holds *)
UnitsOf(slot, held_stack) ==
    IF IsSome(slot) /\ Unwrap(slot).item = held_stack.item THEN Unwrap(slot).size ELSE 0

(* the world process_drag_end would leave if it ran on the world the      *)
(* preview read                                                            *)
DragEndNow == process_drag_end(last.containers, last.held, last.drag, last.checks)

(* the units of the held kind that would land in the slot *)
WouldLand(ref) ==
    UnitsOf(SlotAt(DragEndNow.containers, ref), Unwrap(last.held))
        - UnitsOf(SlotAt(last.containers, ref), Unwrap(last.held))

(* a preview evaluated during an Active left drag with a non-empty held    *)
(* stack, neither the preview nor the drag end panicking                   *)
PreviewDuringDrag ==
    /\ last.op = "drag_preview" /\ ~panicked
    /\ last.drag.is_left_dragging
    /\ IsSome(last.held) /\ Unwrap(last.held).size >= 1
    /\ ~DragEndNow.panicked

(* C21: during an Active left drag with a non-empty held stack,            *)
(* calculate_drag_preview gives for every slot the number of units that    *)
(* would land in that slot if process_drag_end ran now, 0 for a slot whose *)
(* content would not change, also when the single visited slot holds a     *)
(* stack the held stack cannot merge with.                                 *)
C21_PreviewIsDragEnd ==
    PreviewDuringDrag
        => \A k \in 1..Len(OpSlots) :
               /\ last.ret[k] = WouldLand(OpSlots[k])
               /\ (SlotAt(DragEndNow.containers, OpSlots[k]) # SlotAt(last.containers, OpSlots[k]))
                      => last.ret[k] # 0

(* the world the drag would leave if it were resolved on the world the     *)
(* function read: process_right_drag_end for a right drag, process_drag_end *)
(* for a left drag                                                         *)
ResolvedNow ==
    IF last.drag.is_right_dragging
    THEN process_right_drag_end(last.containers, last.held, last.drag, last.checks)
    ELSE process_drag_end(last.containers, last.held, last.drag, last.checks)

(* C22: during an active drag with a non-empty held stack,                 *)
(* calculate_remaining_after_drag returns the count the held stack would   *)
(* have after the drag is resolved now, 0 when the cursor would be empty.  *)
C22_RemainingIsDragEnd ==
    (/\ last.op = "remaining_after_drag" /\ ~panicked
     /\ Unwrap(last.held).size >= 1
     /\ ~ResolvedNow.panicked)
        => last.ret[1] = Count(ResolvedNow.held)

----------------------------------------------------------------------------
(* Properties of the order of the systems within a frame                   *)

(* a visual system ran in this step *)
RanVisual == visual_pending' # visual_pending /\ visual_pending' \subseteq visual_pending

(* C23: in every frame handle_container_events and handle_ui_rebuild have  *)
(* run before any click or drag resolution system runs, and a visual       *)
(* system runs only when all four click and drag resolution systems of the *)
(* frame have run.                                                         *)
C23_SystemOrder ==
    [][ /\ IF \E s \in MouseSystems : Ran(s)
           THEN /\ "handle_container_events" \notin pending
                /\ "handle_ui_rebuild" \notin pending
           ELSE TRUE
        /\ IF RanVisual THEN pending \cap MouseSystems = {} ELSE TRUE ]_vars

----------------------------------------------------------------------------
(* Properties of the UI-mode transitions of the ContainerManager           *)

ManagerOps == {"open_inventory", "close_inventory", "open_chest", "close_chest",
               "switch_chest"}

(* C24: open_inventory, close_inventory, open_chest(id), close_chest and   *)
(* switch_chest(id) leave the held item and every container that existed   *)
(* before with the content it had; a container that did not exist before   *)
(* is the chest of the id open_chest was called with, with 27 slots, all   *)
(* empty.                                                                  *)
C24_TransitionsKeepContent ==
    last.op \in ManagerOps
        => /\ held_item = last.held
           /\ \A k \in DOMAIN last.containers :
                  k \in DOMAIN containers /\ containers[k] = last.containers[k]
           /\ \A k \in DOMAIN containers \ DOMAIN last.containers :
                  /\ last.op = "open_chest"
                  /\ k = Chest(last.id)
                  /\ containers[k].slot_count = 27
                  /\ \A i \in 0..26 : get_slot(containers[k], i) = None

(* open_chest has created a chest while the other containers hold stacks   *)
(* and a stack is on the cursor                                            *)
C24_Witness ==
    /\ last.op = "open_chest"
    /\ Chest(last.id) \notin DOMAIN last.containers
    /\ Chest(last.id) \in DOMAIN containers
    /\ IsSome(held_item)
    /\ IsSome(get_slot(containers[Chest(1)], 0))

(* C25: in every state of the ContainerManager from its default            *)
(* construction on, Hotbar and PlayerInventory exist, and Chest(id) exists *)
(* exactly when open_chest has been executed for id before, called         *)
(* directly or by switch_chest.                                            *)
C25_ChestIffOpened ==
    /\ Hotbar \in DOMAIN containers
    /\ PlayerInventory \in DOMAIN containers
    /\ \A id \in ChestIds : Chest(id) \in DOMAIN containers <=> id \in last.opened

----------------------------------------------------------------------------
(* Stack counts                                                            *)

(* C26: between two frames of input, no slot of any container holds a      *)
(* stack whose count is 0, and the held item is absent or has a count of   *)
(* at least 1.                                                             *)
C26_NoZeroCountStack ==
    (pending = {} /\ ~panicked)
        => /\ \A k \in DOMAIN containers : \A i \in DOMAIN containers[k].slots :
                  containers[k].slots[i].size >= 1
           /\ held_item = None \/ Count(held_item) >= 1

----------------------------------------------------------------------------
(* The pickup slot of the drag state                                       *)

(* C27: when a left click lifts a stack into the empty cursor, the pickup  *)
(* slot of the drag state becomes the slot it was lifted from; the pickup  *)
(* slot stays as it is through every step that leaves a stack of the same  *)
(* item on the cursor; and once a frame has ended with nothing on the      *)
(* cursor, the pickup slot is absent.                                      *)
C27_PickupSlotTracked ==
    [][ /\ IF /\ Ran("handle_left_clicks_updated")
              /\ held_item = None /\ held_item' # None
           THEN drag_state'.pickup_slot = find_slot_under_cursor(input.cursor, ui_slots)
           ELSE TRUE
        /\ IF /\ held_item # None /\ held_item' # None
              /\ Unwrap(held_item).item = Unwrap(held_item').item
           THEN drag_state'.pickup_slot = drag_state.pickup_slot
           ELSE TRUE
        /\ IF pending' = {} /\ held_item' = None
           THEN drag_state'.pickup_slot = None
           ELSE TRUE ]_vars

----------------------------------------------------------------------------
(* Properties of the SlotContainer accessors                               *)

(* C28: get_slot and get_slot_mut called with an index that is not below   *)
(* slot_count report it: what the caller gets differs from the empty       *)
(* result returned for an empty slot within range.                         *)
C28_OutOfRangeReported ==
    (last.op \in {"get_slot", "get_slot_mut"} /\ ~InRange(last.before, last.index))
        => (panicked \/ last.ret # None)

(* C29: set_slot, take_slot and get_slot_mut called with an index that is  *)
(* not below slot_count panic and do not return; within range set_slot     *)
(* stores its stack in that slot, take_slot returns what the slot held and *)
(* leaves it empty, and both leave every other slot as it was.             *)
C29_MutatorsPanicOrAct ==
    last.op \in {"set_slot", "take_slot", "get_slot_mut"}
        => LET c == containers[last.container] IN
           IF ~InRange(last.before, last.index) THEN panicked
           ELSE /\ ~panicked
                /\ \A i \in 0..(c.slot_count - 1) :
                       i # last.index => get_slot(c, i) = get_slot(last.before, i)
                /\ last.op = "set_slot" => get_slot(c, last.index) = last.stack
                /\ last.op = "take_slot" =>
                       /\ last.ret = get_slot(last.before, last.index)
                       /\ get_slot(c, last.index) = None

----------------------------------------------------------------------------
(* Left click as its own inverse                                           *)

(* C30: with nothing on the cursor, two left clicks on a slot that holds a *)
(* stack leave every container as it was and the cursor empty; one left    *)
(* click on an empty slot with nothing on the cursor changes nothing.      *)
C30_LeftClickTwiceRestores ==
    /\ (/\ last.op = "left_click_twice" /\ last.held = None
        /\ IsSome(SlotAt(last.containers, Unwrap(last.ref))))
           => (containers = last.containers /\ held_item = None /\ ~panicked)
    /\ (/\ last.op = "left_click" /\ last.held = None
        /\ SlotAt(last.containers, Unwrap(last.ref)) = None)
           => (containers = last.containers /\ held_item = None /\ ~panicked)

(* two left clicks with an empty cursor have acted on a slot holding a     *)
(* stack                                                                   *)
C30_Witness ==
    /\ last.op = "left_click_twice" /\ last.held = None
    /\ IsSome(SlotAt(last.containers, Unwrap(last.ref)))
    /\ Count(SlotAt(containers, Unwrap(last.ref))) = 15

----------------------------------------------------------------------------
(* Properties of ContainerState                                            *)

(* the slot indexes of a container that hold nothing *)
EmptyIndexes(cs) == {i \in 0..(Len(cs.inventory) - 1) : cs.inventory[i + 1] = None}

(* C31: add_item puts the item into the empty slot of lowest index and     *)
(* returns Ok of that index, every other slot staying as it was; with no   *)
(* empty slot it returns Err("Container is full") and every slot stays as  *)
(* it was.                                                                 *)
C31_AddItemFirstEmpty ==
    last.op = "add_item"
        => LET before == last.before
               empty == EmptyIndexes(before)
           IN  IF empty # {}
               THEN LET first == CHOOSE i \in empty : \A j \in empty : i <= j IN
                    /\ last.ret.ok /\ last.ret.index = Some(first)
                    /\ container_state.inventory[first + 1] = last.item
                    /\ \A i \in 1..Len(before.inventory) :
                           i # first + 1 =>
                               container_state.inventory[i] = before.inventory[i]
                    /\ Len(container_state.inventory) = Len(before.inventory)
               ELSE /\ ~last.ret.ok /\ last.ret.err = << "Container is full" >>
                    /\ container_state = before

(* add_item has filled a slot that is neither the first slot nor the only  *)
(* empty one                                                               *)
C31_Witness ==
    /\ last.op = "add_item" /\ last.ret.ok
    /\ last.ret.index = Some(1)
    /\ Cardinality(EmptyIndexes(last.before)) >= 2

(* C32: a ContainerState of slot count n has no occupied and n empty slots *)
(* when created; after every call empty_slots() + occupied_slots() is n;   *)
(* and every add_item that returns Ok raises occupied_slots() by 1.        *)
C32_SlotCounts ==
    /\ empty_slots(container_state) + occupied_slots(container_state)
           = container_state.slot_count
    /\ last.op = "new" => /\ occupied_slots(container_state) = 0
                          /\ empty_slots(container_state) = container_state.slot_count
    /\ (last.op = "add_item" /\ last.ret.ok)
           => occupied_slots(container_state) = occupied_slots(last.before) + 1

(* a second add_item has succeeded in a container that still has room      *)
C32_Witness ==
    /\ last.op = "add_item" /\ last.ret.ok
    /\ occupied_slots(container_state) = 2
    /\ empty_slots(container_state) = 1

(* a name with a character that is not whitespace *)
NonBlank(name) == \E i \in 1..Len(name) : name[i] \notin Whitespace

(* validate has run on a container, directly or within from_rson_string *)
WasValidated ==
    \/ last.op = "validate"
    \/ last.op = "from_rson_string" /\ last.parsed # None

(* the container validate has run on *)
Validated == IF last.op = "validate" THEN last.before ELSE Unwrap(last.parsed)

ValidatesOkExactly ==
    last.ret.ok <=> /\ Len(Validated.inventory) = Validated.slot_count
                    /\ NonBlank(Validated.container_name)
                    /\ Validated.slot_count >= 1

AtLeastOneSlot == "Container must have at least one slot"

C34_MoveItemOrErr ==
    last.op = "move_item"
        => LET before == last.before
               within(i) == i < Len(before.inventory)
           IN  IF /\ within(last.from) /\ within(last.to)
                  /\ before.inventory[last.from + 1] # None
                  /\ before.inventory[last.to + 1] = None
               THEN /\ ~panicked /\ last.ret.ok
                    /\ container_state =
                           [before EXCEPT !.inventory[last.to + 1] =
                                              before.inventory[last.from + 1],
                                          !.inventory[last.from + 1] = None]
               ELSE /\ ~panicked /\ ~last.ret.ok
                    /\ container_state = before

----------------------------------------------------------------------------
(* Conservation of items                                                   *)

RECURSIVE SumOfSet(_, _)
SumOfSet(F(_), S) ==
    IF S = {} THEN 0
    ELSE LET x == CHOOSE y \in S : TRUE IN F(x) + SumOfSet(F, S \ {x})

(* the units of an item kind a stack, present or not, stands for *)
UnitsOfKind(stack, item) ==
    IF IsSome(stack) /\ Unwrap(stack).item = item THEN Unwrap(stack).size ELSE 0

(* the stack, if any, in a slot of a world *)
SlotOf(cs, k, i) == IF k \in DOMAIN cs THEN get_slot(cs[k], i) ELSE None

(* the slots whose content differs between two worlds *)
ChangedSlots(cs1, cs2) ==
    {s \in UNION {{<< k, i >> : i \in (IF k \in DOMAIN cs1 THEN DOMAIN cs1[k].slots ELSE {})
                                   \cup (IF k \in DOMAIN cs2 THEN DOMAIN cs2[k].slots ELSE {})} :
                  k \in DOMAIN cs1 \cup DOMAIN cs2} :
        SlotOf(cs1, s[1], s[2]) # SlotOf(cs2, s[1], s[2])}

(* the item kinds of the stacks in the given slots and on the cursor *)
KindsIn(cs, held, slots) ==
    {Unwrap(SlotOf(cs, s[1], s[2])).item : s \in {t \in slots : IsSome(SlotOf(cs, t[1], t[2]))}}
    \cup (IF IsSome(held) THEN {Unwrap(held).item} ELSE {})

(* the units of an item kind in the given slots and on the cursor *)
TotalUnits(cs, held, slots, item) ==
    LET at(s) == UnitsOfKind(SlotOf(cs, s[1], s[2]), item) IN
    SumOfSet(at, slots) + UnitsOfKind(held, item)

(* the totals of every item kind are the same in the two worlds: the slots *)
(* that did not change count the same on both sides                        *)
SameTotalsOver(cs1, held1, cs2, held2, changed) ==
    \A item \in KindsIn(cs1, held1, changed) \cup KindsIn(cs2, held2, changed) :
        TotalUnits(cs1, held1, changed, item) = TotalUnits(cs2, held2, changed, item)

SameTotals(cs1, held1, cs2, held2) ==
    SameTotalsOver(cs1, held1, cs2, held2, ChangedSlots(cs1, cs2))

(* C35: for every item kind, the units in all container slots plus those   *)
(* of the held stack are as many after an operation as before it: a left   *)
(* click, a right click, a right-drag deposit, the release of a left drag  *)
(* over zero, one or several slots, a shift-click or a UI-mode transition. *)
(* An operation that panics ends the program and has no state after it.    *)
C35_UnitsConserved ==
    (last # NoOp /\ ~panicked)
        => SameTotals(last.containers, last.held, containers, held_item)

(* the release of a left drag over two slots has spread the held stack *)
C35_Witness ==
    /\ last # NoOp
    /\ last.op = "drag_end"
    /\ Len(last.drag.left_drag_slots) = 2
    /\ held_item # last.held
    /\ \E s1, s2 \in ChangedSlots(last.containers, containers) : s1 # s2

----------------------------------------------------------------------------
(* UI mode, active chest and layouts                                       *)

(* the layouts list is the one of the UI mode *)
LayoutsFollowMode ==
    layouts = CASE ui_mode = HotbarOnly -> << Hotbar >>
                [] ui_mode = InventoryOpen -> << PlayerInventory, Hotbar >>
                [] OTHER -> << Chest(ui_mode.id), PlayerInventory, Hotbar >>

(* active_chest_id names the chest of ChestOpen and nothing otherwise *)
ActiveChestFollowsMode ==
    \A id \in ChestIds : active_chest_id = Some(id) <=> ui_mode = ChestOpen(id)

(* C36: after any sequence of open_inventory, close_inventory, open_chest, *)
(* close_chest and switch_chest, active_chest_id is Some(id) if and only   *)
(* if ui_mode is ChestOpen(id), and layouts is [hotbar] in HotbarOnly,     *)
(* [player inventory, hotbar] in InventoryOpen and [chest(id), player      *)
(* inventory, hotbar] in ChestOpen(id).                                    *)
C36_ModeChestLayouts == ActiveChestFollowsMode /\ LayoutsFollowMode

----------------------------------------------------------------------------
(* Escape and AppExit                                                      *)

(* the UI mode the current frame started with, and the key pressed in it *)
ModeAtFrameStart == last.ui_mode

KeyOfFrame == last.key

(* C37: an Escape press in InventoryOpen or ChestOpen closes that UI (the  *)
(* mode is HotbarOnly once the frame's systems have run) and sends no      *)
(* AppExit in that frame, whatever the order of exit_handler among the     *)
(* systems; AppExit is sent only for an Escape press in a frame that       *)
(* started in HotbarOnly.                                                  *)
C37_EscapeClosesOnly ==
    last.op = "frame" =>
        /\ app_exit => (KeyOfFrame = "Escape" /\ ModeAtFrameStart = HotbarOnly)
        /\ (/\ KeyOfFrame = "Escape" /\ ModeAtFrameStart # HotbarOnly
            /\ "handle_container_events" \notin pending)
               => ui_mode = HotbarOnly

----------------------------------------------------------------------------
(* Properties of the shift-click                                           *)

ShiftSource == Unwrap(last.ref)[1]

ShiftIndex == Unwrap(last.ref)[2]

(* a shift-click was made on an occupied slot *)
ShiftOnOccupied ==
    /\ last.op = "shift_click"
    /\ IsSome(SlotOf(last.containers, ShiftSource, ShiftIndex))

ShiftMoved == Unwrap(SlotOf(last.containers, ShiftSource, ShiftIndex))

ShiftTargets == get_shift_click_targets(ShiftSource, ui_mode)

(* the container has no room for units of the stack: no slot is empty and  *)
(* every stack it can merge with is at its max                             *)
NoRoomIn(container, stack) ==
    /\ EmptySlots(container) = {}
    /\ \A i \in MergeSlots(container, stack) : container.slots[i].size >= MaxOf(stack)

(* what the shift-click did to slot i of the target container k: nothing,  *)
(* or it raised a mergeable stack to at most its max, or it filled the     *)
(* first empty slot once no mergeable stack had room left                  *)
TargetSlotAsStated(k, i) ==
    LET b == get_slot(last.containers[k], i)
        a == get_slot(containers[k], i)
    IN  \/ a = b
        \/ /\ IsSome(b) /\ IsSome(a)
           /\ can_merge_with(ShiftMoved, Unwrap(b))
           /\ Unwrap(a) = [Unwrap(b) EXCEPT !.size = Unwrap(a).size]
           /\ Unwrap(b).size < Unwrap(a).size
           /\ Unwrap(a).size <= MaxOf(Unwrap(b))
        \/ /\ b = None /\ IsSome(a)
           /\ Unwrap(a).item = ShiftMoved.item
           /\ Unwrap(a).size > 0
           /\ \A j \in EmptySlots(last.containers[k]) : i <= j
           /\ \A j \in MergeSlots(containers[k], ShiftMoved) \ {i} :
                  containers[k].slots[j].size >= MaxOf(ShiftMoved)

(* C38: process_shift_click on an occupied slot changes only the source    *)
(* slot and slots of the target containers that get_shift_click_targets    *)
(* selects for (source container, UI mode); in a target it merges into     *)
(* the mergeable stacks, up to max_stack_size, before it uses the first    *)
(* empty slot, and a later target is touched only when the earlier ones    *)
(* have no room; the units that fit nowhere are back in the source slot,   *)
(* no unit is lost, and with no target the whole state is unchanged.       *)
C38_ShiftClickMovesToTargets ==
    ShiftOnOccupied =>
        /\ ~panicked
        /\ held_item = last.held
        /\ drag_state = last.drag
        /\ DOMAIN containers = DOMAIN last.containers
        /\ \A s \in ChangedSlots(last.containers, containers) :
              \/ s = << ShiftSource, ShiftIndex >>
              \/ \E n \in 1..Len(ShiftTargets) :
                    /\ s[1] = ShiftTargets[n]
                    /\ \A m \in 1..(n - 1) :
                          ShiftTargets[m] \in DOMAIN containers
                              => NoRoomIn(containers[ShiftTargets[m]], ShiftMoved)
        /\ \A n \in 1..Len(ShiftTargets) :
              ShiftTargets[n] \in DOMAIN containers =>
                  \A i \in 0..(SlotContainer_len(containers[ShiftTargets[n]]) - 1) :
                      TargetSlotAsStated(ShiftTargets[n], i)
        /\ LET left == SlotOf(containers, ShiftSource, ShiftIndex) IN
              \/ left = None
              \/ /\ Unwrap(left) = [ShiftMoved EXCEPT !.size = Unwrap(left).size]
                 /\ Unwrap(left).size > 0
                 /\ Unwrap(left).size <= ShiftMoved.size
                 /\ \A n \in 1..Len(ShiftTargets) :
                       ShiftTargets[n] \in DOMAIN containers
                           => NoRoomIn(containers[ShiftTargets[n]], ShiftMoved)
        /\ SameTotals(last.containers, last.held, containers, held_item)
        /\ (ShiftTargets = << >> \/ ui_mode = HotbarOnly) => containers = last.containers

(* a shift-click merged into a stack, filled an empty slot and left the    *)
(* source slot empty                                                       *)
C38_Witness ==
    /\ ShiftOnOccupied
    /\ SlotOf(containers, ShiftSource, ShiftIndex) = None
    /\ \E s1, s2 \in ChangedSlots(last.containers, containers) :
          /\ IsSome(SlotOf(last.containers, s1[1], s1[2]))
          /\ s1 # << ShiftSource, ShiftIndex >>
          /\ SlotOf(last.containers, s2[1], s2[2]) = None

(* a shift-click whose stack did not fit put the rest back *)
C38_WitnessLeftover ==
    /\ ShiftOnOccupied
    /\ IsSome(SlotOf(containers, ShiftSource, ShiftIndex))
    /\ Unwrap(SlotOf(containers, ShiftSource, ShiftIndex)).size < ShiftMoved.size

====
